---- MODULE Spec2Model ----
(***************************************************************************)
(* Model of restic-backup-service: path mapping and classification,        *)
(* stderr classification, repository discovery, time windows and           *)
(* best-snapshot selection.                                                *)
(*                                                                         *)
(* Strings are sequences of one-character strings, so that prefix tests,   *)
(* splitting, joining, replacing and substring search are computed the way *)
(* the Rust code computes them.                                            *)
(***************************************************************************)
EXTENDS Integers, Sequences, FiniteSets, TLC

VARIABLES
    \* ---- PathMapper / BackupRepo (pure functions on one native path) ----
    path,           \* the input string
    repo_subpath,   \* result of PathMapper::path_to_repo_subpath(path), or None
    category,       \* result of BackupRepo::category() on path, or None
    native,         \* result of PathMapper::s3_to_native_path(path), or None
    \* ---- BackupServiceError::from_stderr ----
    stderr,         \* the diagnostic text of the failed command
    context,        \* the context string passed by the caller
    err,            \* the BackupServiceError returned, or None
    \* ---- select_timestamp and RestoreWorkflow::restore_repositories ----
    selected_repos,     \* the RepositorySelectionItems chosen for the restore
    timestamp_opt,      \* the timestamp given on the command line, or None
    window_times,       \* the window starts built by select_timestamp
    window_counts,      \* the snapshot count shown for each window
    selected_timestamp, \* the timestamp select_timestamp returned, or None
    restore_log,        \* per repository handled: the snapshot chosen and the
                        \* outcome of its restore command
    restored_count,
    skipped_count,
    restore_result,     \* None while running, then "Ok" or the error kind
    pcR,                \* position of the restore session
    \* ---- RepositoryScanner::scan_repositories ----
    hostname,       \* the host whose repositories are scanned
    s3_base_path,   \* Config::s3_base_path() of the configuration
    users_todo,     \* users of the user_home listing not yet visited
    volumes_todo,   \* volumes of the docker_volume listing not yet visited
    repos,          \* the RepositoryInfos collected so far
    listings,       \* every call of list_s3_dirs so far: path and outcome
    scan_result,    \* None while scanning, then the Result returned
    pcS,            \* position of the scan
    \* ---- the native path a scan rebuilds from a repository key ----
    round_trip,     \* the rebuilt native path, or None
    \* ---- which restore loop runs the batch ----
    restore_entry,  \* "restore_workflow" (RestoreWorkflow::restore_repositories)
                    \* or "restore_interactive" (restore.rs)
    \* ---- collect_backup_data (restore.rs) ----
    repo_infos,     \* the RepositoryInfos the scan returned
    lookups,        \* per repository looked up: the outcome of its lookup
    collected_repos, \* the RestoreRepos pushed so far ("repos" of the function)
    collect_result, \* None while collecting, then the Result returned
    pcC,            \* position of the collection
    \* ---- SnapshotCollector::get_snapshots ----
    engine_records, \* the output of the engine's snapshot listing
    requested_path, \* the native_path argument
    snapshot_result, \* the (count, snapshot_infos) returned, or None
    list_report, \* what list_backups did with that result, or None
    \* ---- RepositoryOperations::convert_to_selection_items ----
    repo_data,      \* the RepositoryData given
    selection_items, \* the RepositorySelectionItems returned, or None
    \* ---- the parser of the object-store listing ----
    stdout,         \* the lines of the listing output
    parsed_dirs,    \* the names returned ("dirs" of the parser), or None
    \* ---- select_repositories ----
    backup_data,    \* the RepositorySelectionItems offered
    path_opt,       \* the path given on the command line, or None
    repository_selection, \* the Result returned, or None
    \* ---- RepositoryScanner::build_s3_path over Config::s3_base_path ----
    restic_repo_base,   \* Config::restic_repo_base
    path_hostname,      \* the hostname argument
    path_category,      \* the category argument
    built_path,         \* the path returned, or None
    \* ---- the engine calls of a restore session ----
    session_entry,      \* the implementation run: restore.rs or restore_workflow.rs
    config_hostname,    \* Config::hostname of the machine the tool runs on
    selected_host,      \* the host selected for the restore
    session_repos,      \* the repo_subpaths discovered for the host
    engine_calls,       \* the engine calls made so far, with their repository URL
    \* ---- backup followed by scan_repositories ----
    store_hostname,     \* the host backed up and scanned
    backed_up,          \* the native paths backed up for the host
    discovered,         \* the RepositoryInfos the scan returns, or None
    \* ---- a backup run ----
    backup_entry,       \* which backup loop runs
    backup_hostname,    \* Config::hostname
    all_paths,          \* the paths of the run with what path.exists() gives
    backup_log,         \* per path processed: engine commands and outcome
    success_count,
    skip_count,
    backup_result,      \* None while running, "Ok" or the error kind
    pcB

pathVars == <<path, repo_subpath, category, native>>
errVars == <<stderr, context, err>>
selVars == <<selected_repos, timestamp_opt, window_times, window_counts,
             selected_timestamp, restore_log, restored_count, skipped_count,
             restore_result, pcR>>

scanVars == <<hostname, s3_base_path, users_todo, volumes_todo, repos,
              listings, scan_result, pcS>>
rtVars == <<round_trip>>
entryVars == <<restore_entry>>
collectVars == <<repo_infos, lookups, collected_repos, collect_result, pcC>>
snapVars == <<engine_records, requested_path, snapshot_result, list_report>>
convVars == <<repo_data, selection_items>>
lsVars == <<stdout, parsed_dirs>>
srVars == <<backup_data, path_opt, repository_selection>>
s3Vars == <<restic_repo_base, path_hostname, path_category, built_path>>
sessionVars == <<session_entry, config_hostname, selected_host, session_repos,
                 engine_calls>>
storeVars == <<store_hostname, backed_up, discovered>>
backupVars == <<backup_entry, backup_hostname, all_paths, backup_log,
                success_count, skip_count, backup_result, pcB>>
restVars == <<s3Vars, sessionVars, storeVars, backupVars>>
oldVars == <<pathVars, errVars, selVars, scanVars, rtVars, entryVars,
             collectVars, snapVars, convVars, lsVars, srVars>>

vars == <<path, repo_subpath, category, native, stderr, context, err,
          selected_repos, timestamp_opt, window_times, window_counts,
          selected_timestamp, restore_log, restored_count, skipped_count,
          restore_result, pcR, hostname, s3_base_path, users_todo,
          volumes_todo, repos, listings, scan_result, pcS, round_trip,
          restore_entry, repo_infos, lookups, collected_repos, collect_result,
          pcC, engine_records, requested_path, snapshot_result, list_report, repo_data,
          selection_items, stdout, parsed_dirs, backup_data, path_opt,
          repository_selection, restic_repo_base, path_hostname,
          path_category, built_path, session_entry, config_hostname,
          selected_host, session_repos, engine_calls, store_hostname,
          backed_up, discovered, backup_entry, backup_hostname, all_paths,
          backup_log, success_count, skip_count, backup_result, pcB>>

(***************************************************************************)
(* Option values.                                                          *)
(***************************************************************************)
None == <<>>
Some(v) == <<v>>
IsSome(o) == Len(o) = 1
Unwrap(o) == o[1]

(***************************************************************************)
(* String helpers (std::str).                                              *)
(***************************************************************************)

\* str::starts_with
StartsWith(s, p) ==
    /\ Len(p) <= Len(s)
    /\ SubSeq(s, 1, Len(p)) = p

\* the remainder after a prefix known to be present (str::strip_prefix)
StripPrefix(s, p) == SubSeq(s, Len(p) + 1, Len(s))

\* str::matches(ch).count()
RECURSIVE CountChar(_, _)
CountChar(s, ch) ==
    IF s = <<>> THEN 0
    ELSE (IF Head(s) = ch THEN 1 ELSE 0) + CountChar(Tail(s), ch)

\* str::replace(ch, rep) for a one-character pattern
RECURSIVE Replace(_, _, _)
Replace(s, ch, rep) ==
    IF s = <<>> THEN <<>>
    ELSE (IF Head(s) = ch THEN rep ELSE <<Head(s)>>) \o Replace(Tail(s), ch, rep)

\* str::trim_start_matches(ch)
RECURSIVE TrimStartMatches(_, _)
TrimStartMatches(s, ch) ==
    IF s /= <<>> /\ Head(s) = ch THEN TrimStartMatches(Tail(s), ch) ELSE s

\* index of the first occurrence of ch in s, 0 when absent (str::find)
RECURSIVE FindCharFrom(_, _, _)
FindCharFrom(s, ch, i) ==
    IF i > Len(s) THEN 0
    ELSE IF s[i] = ch THEN i
    ELSE FindCharFrom(s, ch, i + 1)

FindChar(s, ch) == FindCharFrom(s, ch, 1)

\* str::split(ch).collect(): the empty string splits to one empty part
RECURSIVE Split(_, _)
Split(s, ch) ==
    LET i == FindChar(s, ch) IN
    IF i = 0 THEN <<s>>
    ELSE <<SubSeq(s, 1, i - 1)>> \o Split(SubSeq(s, i + 1, Len(s)), ch)

\* [&str]::join(sep)
RECURSIVE Join(_, _)
Join(parts, sep) ==
    IF parts = <<>> THEN <<>>
    ELSE IF Len(parts) = 1 THEN parts[1]
    ELSE parts[1] \o sep \o Join(Tail(parts), sep)

\* str::contains(sub)
RECURSIVE ContainsFrom(_, _, _)
ContainsFrom(s, sub, i) ==
    IF i + Len(sub) - 1 > Len(s) THEN FALSE
    ELSE IF SubSeq(s, i, i + Len(sub) - 1) = sub THEN TRUE
    ELSE ContainsFrom(s, sub, i + 1)

Contains(s, sub) == ContainsFrom(s, sub, 1)

\* the elements of pool at the positions in S, in the order of pool
RECURSIVE PickFrom(_, _)
PickFrom(pool, S) ==
    IF S = {} THEN <<>>
    ELSE LET i == CHOOSE j \in S : \A k \in S : j <= k
         IN  <<pool[i]>> \o PickFrom(pool, S \ {i})

(***************************************************************************)
(* String constants of the program.                                        *)
(***************************************************************************)
SLASH == <<"/">>
UNDERSCORE == <<"_">>
HOME_DIR_WITH_SLASH == <<"/", "h", "o", "m", "e", "/">>
DOCKER_VOLUMES_DIR_WITH_SLASH ==
    <<"/", "m", "n", "t", "/", "d", "o", "c", "k", "e", "r", "-", "d", "a",
      "t", "a", "/", "v", "o", "l", "u", "m", "e", "s", "/">>
CATEGORY_USER_HOME == <<"u", "s", "e", "r", "_", "h", "o", "m", "e">>
CATEGORY_DOCKER_VOLUME ==
    <<"d", "o", "c", "k", "e", "r", "_", "v", "o", "l", "u", "m", "e">>
CATEGORY_SYSTEM == <<"s", "y", "s", "t", "e", "m">>

(***************************************************************************)
(* PathMapper (src/shared/paths.rs) and BackupRepo (src/repository.rs).    *)
(***************************************************************************)

\* PathMapper::s3_to_native_path with the threshold on the underscore count
\* lowered by one
s3_to_native_path_any_underscore(s3_dir) ==
    IF CountChar(s3_dir, "_") > 0
    THEN Replace(s3_dir, "_", SLASH)
    ELSE s3_dir

\* PathMapper::s3_to_native_path
s3_to_native_path(s3_dir) ==
    IF CountChar(s3_dir, "_") > 1
    THEN Replace(s3_dir, "_", SLASH)
    ELSE s3_dir

\* PathMapper::path_to_repo_subpath keeping the '/' between the segments
\* below the user directory
path_to_repo_subpath_no_flatten(path_str) ==
    IF StartsWith(path_str, HOME_DIR_WITH_SLASH) THEN
        LET stripped == StripPrefix(path_str, HOME_DIR_WITH_SLASH)
            parts == Split(stripped, "/")
            username == parts[1]
        IN  IF Len(parts) = 1
            THEN CATEGORY_USER_HOME \o SLASH \o username
            ELSE CATEGORY_USER_HOME \o SLASH \o username \o SLASH
                    \o Join(Tail(parts), SLASH)
    ELSE IF StartsWith(path_str, DOCKER_VOLUMES_DIR_WITH_SLASH) THEN
        LET volume_path == StripPrefix(path_str, DOCKER_VOLUMES_DIR_WITH_SLASH)
        IN  IF volume_path = <<>>
            THEN CATEGORY_DOCKER_VOLUME
            ELSE CATEGORY_DOCKER_VOLUME \o SLASH \o Replace(volume_path, "/", UNDERSCORE)
    ELSE
        LET system_path == TrimStartMatches(path_str, "/")
        IN  IF system_path = <<>>
            THEN CATEGORY_SYSTEM
            ELSE CATEGORY_SYSTEM \o SLASH \o Replace(system_path, "/", UNDERSCORE)

\* PathMapper::path_to_repo_subpath
path_to_repo_subpath(path_str) ==
    IF StartsWith(path_str, HOME_DIR_WITH_SLASH) THEN
        LET stripped == StripPrefix(path_str, HOME_DIR_WITH_SLASH)
            parts == Split(stripped, "/")
            username == parts[1]
        IN  IF Len(parts) = 0
            THEN CATEGORY_USER_HOME
            ELSE IF Len(parts) = 1
            THEN CATEGORY_USER_HOME \o SLASH \o username
            ELSE CATEGORY_USER_HOME \o SLASH \o username \o SLASH
                    \o Join(Tail(parts), UNDERSCORE)
    ELSE IF StartsWith(path_str, DOCKER_VOLUMES_DIR_WITH_SLASH) THEN
        LET volume_path == StripPrefix(path_str, DOCKER_VOLUMES_DIR_WITH_SLASH)
        IN  IF volume_path = <<>>
            THEN CATEGORY_DOCKER_VOLUME
            ELSE CATEGORY_DOCKER_VOLUME \o SLASH \o Replace(volume_path, "/", UNDERSCORE)
    ELSE
        LET system_path == TrimStartMatches(path_str, "/")
        IN  IF system_path = <<>>
            THEN CATEGORY_SYSTEM
            ELSE CATEGORY_SYSTEM \o SLASH \o Replace(system_path, "/", UNDERSCORE)

\* BackupRepo::category without the exclusion of the bare roots
BackupRepo_category_prefix_only(path_str) ==
    IF StartsWith(path_str, HOME_DIR_WITH_SLASH)
    THEN CATEGORY_USER_HOME
    ELSE IF StartsWith(path_str, DOCKER_VOLUMES_DIR_WITH_SLASH)
    THEN CATEGORY_DOCKER_VOLUME
    ELSE CATEGORY_SYSTEM

\* BackupRepo::category
BackupRepo_category(path_str) ==
    IF StartsWith(path_str, HOME_DIR_WITH_SLASH) /\ path_str /= HOME_DIR_WITH_SLASH
    THEN CATEGORY_USER_HOME
    ELSE IF /\ StartsWith(path_str, DOCKER_VOLUMES_DIR_WITH_SLASH)
            /\ path_str /= DOCKER_VOLUMES_DIR_WITH_SLASH
    THEN CATEGORY_DOCKER_VOLUME
    ELSE CATEGORY_SYSTEM

(***************************************************************************)
(* Inputs of the path functions: concatenations of at most MaxPieces       *)
(* pieces.  The pieces are chosen so that the roots, the bare roots with   *)
(* and without a trailing slash, look-alikes ("/homestead"), relative      *)
(* paths, empty components, underscores, dots, hyphens and spaces occur.   *)
(***************************************************************************)
MaxPieces == 3

PathPieces ==
    { <<"/">>,
      <<"/", "h", "o", "m", "e">>,
      <<"/", "m", "n", "t", "/", "d", "o", "c", "k", "e", "r", "-", "d", "a",
        "t", "a", "/", "v", "o", "l", "u", "m", "e", "s">>,
      <<"/", "t", "i", "m">>,
      <<"/", "m", "y", "/", "a", ".", "b">>,
      <<"_", "d">>,
      <<"s", "t", "e", "a", "d">>,
      <<" ", " ", "x", "-", "y", " ">> }

RECURSIVE PathsOfLen(_)
PathsOfLen(n) ==
    IF n = 0 THEN { <<>> }
    ELSE { p \o q : p \in PathsOfLen(n - 1), q \in PathPieces }

PathInputs == UNION { PathsOfLen(n) : n \in 0..MaxPieces }

PathInit ==
    /\ path \in PathInputs
    /\ repo_subpath = None
    /\ category = None
    /\ native = None

\* a call of PathMapper::path_to_repo_subpath(path); the result is always Ok
PathToRepoSubpath ==
    /\ repo_subpath = None
    /\ repo_subpath' = Some(path_to_repo_subpath(path))
    /\ UNCHANGED <<path, category, native>>
    /\ UNCHANGED <<errVars, selVars, scanVars,
                   collectVars, snapVars, convVars, lsVars, srVars>>
    /\ UNCHANGED <<rtVars, entryVars>>
    /\ UNCHANGED restVars

\* a call of BackupRepo::new(path).category()
Category ==
    /\ category = None
    /\ category' = Some(BackupRepo_category(path))
    /\ UNCHANGED <<path, repo_subpath, native>>
    /\ UNCHANGED <<errVars, selVars, scanVars,
                   collectVars, snapVars, convVars, lsVars, srVars>>
    /\ UNCHANGED <<rtVars, entryVars>>
    /\ UNCHANGED restVars

\* a call of PathMapper::s3_to_native_path(path)
S3ToNativePath ==
    /\ native = None
    /\ native' = Some(s3_to_native_path(path))
    /\ UNCHANGED <<path, repo_subpath, category>>
    /\ UNCHANGED <<errVars, selVars, scanVars,
                   collectVars, snapVars, convVars, lsVars, srVars>>
    /\ UNCHANGED <<rtVars, entryVars>>
    /\ UNCHANGED restVars

PathIdle ==
    /\ path = <<>>
    /\ repo_subpath = None
    /\ category = None
    /\ native = None

(***************************************************************************)
(* BackupServiceError::from_stderr (src/errors.rs).                        *)
(***************************************************************************)
AuthenticationFailed == "AuthenticationFailed"
NetworkError == "NetworkError"
RepositoryNotFound == "RepositoryNotFound"
CommandFailed == "CommandFailed"

ErrorKinds == {AuthenticationFailed, NetworkError, RepositoryNotFound, CommandFailed}

\* a BackupServiceError value: the variant and the string it carries
Error(kind, arg) == [kind |-> kind, arg |-> arg]

\* char::to_lowercase on the letters A..Z, every other character unchanged
LowerChar(c) ==
    CASE c = "A" -> "a" [] c = "B" -> "b" [] c = "C" -> "c" [] c = "D" -> "d"
      [] c = "E" -> "e" [] c = "F" -> "f" [] c = "G" -> "g" [] c = "H" -> "h"
      [] c = "I" -> "i" [] c = "J" -> "j" [] c = "K" -> "k" [] c = "L" -> "l"
      [] c = "M" -> "m" [] c = "N" -> "n" [] c = "O" -> "o" [] c = "P" -> "p"
      [] c = "Q" -> "q" [] c = "R" -> "r" [] c = "S" -> "s" [] c = "T" -> "t"
      [] c = "U" -> "u" [] c = "V" -> "v" [] c = "W" -> "w" [] c = "X" -> "x"
      [] c = "Y" -> "y" [] c = "Z" -> "z" [] OTHER -> c

\* str::to_lowercase
ToLowercase(s) == [i \in 1..Len(s) |-> LowerChar(s[i])]

TOK_access_denied == <<"a", "c", "c", "e", "s", "s", " ", "d", "e", "n", "i", "e", "d">>
TOK_invalid_credentials ==
    <<"i", "n", "v", "a", "l", "i", "d", " ", "c", "r", "e", "d", "e", "n", "t",
      "i", "a", "l", "s">>
TOK_authorization == <<"a", "u", "t", "h", "o", "r", "i", "z", "a", "t", "i", "o", "n">>
TOK_forbidden == <<"f", "o", "r", "b", "i", "d", "d", "e", "n">>
TOK_access_key == <<"a", "c", "c", "e", "s", "s", " ", "k", "e", "y">>
TOK_secret_key == <<"s", "e", "c", "r", "e", "t", " ", "k", "e", "y">>
TOK_network == <<"n", "e", "t", "w", "o", "r", "k">>
TOK_connection == <<"c", "o", "n", "n", "e", "c", "t", "i", "o", "n">>
TOK_timeout == <<"t", "i", "m", "e", "o", "u", "t">>
TOK_unreachable == <<"u", "n", "r", "e", "a", "c", "h", "a", "b", "l", "e">>
TOK_dns == <<"d", "n", "s">>
TOK_repository == <<"r", "e", "p", "o", "s", "i", "t", "o", "r", "y">>
TOK_not_found == <<"n", "o", "t", " ", "f", "o", "u", "n", "d">>

\* BackupServiceError::from_stderr testing the connectivity tokens before
\* the credential tokens
from_stderr_network_first(stderr_text, context_text) ==
    LET stderr_lower == ToLowercase(stderr_text) IN
    IF \/ Contains(stderr_lower, TOK_network)
       \/ Contains(stderr_lower, TOK_connection)
       \/ Contains(stderr_lower, TOK_timeout)
       \/ Contains(stderr_lower, TOK_unreachable)
       \/ Contains(stderr_lower, TOK_dns)
    THEN Error(NetworkError, <<>>)
    ELSE IF \/ Contains(stderr_lower, TOK_access_denied)
            \/ Contains(stderr_lower, TOK_invalid_credentials)
            \/ Contains(stderr_lower, TOK_authorization)
            \/ Contains(stderr_lower, TOK_forbidden)
            \/ Contains(stderr_lower, TOK_access_key)
            \/ Contains(stderr_lower, TOK_secret_key)
    THEN Error(AuthenticationFailed, <<>>)
    ELSE IF Contains(stderr_lower, TOK_repository) /\ Contains(stderr_lower, TOK_not_found)
    THEN Error(RepositoryNotFound, context_text)
    ELSE Error(CommandFailed, stderr_text)

\* BackupServiceError::from_stderr
from_stderr(stderr_text, context_text) ==
    LET stderr_lower == ToLowercase(stderr_text) IN
    IF \/ Contains(stderr_lower, TOK_access_denied)
       \/ Contains(stderr_lower, TOK_invalid_credentials)
       \/ Contains(stderr_lower, TOK_authorization)
       \/ Contains(stderr_lower, TOK_forbidden)
       \/ Contains(stderr_lower, TOK_access_key)
       \/ Contains(stderr_lower, TOK_secret_key)
    THEN Error(AuthenticationFailed, <<>>)
    ELSE IF \/ Contains(stderr_lower, TOK_network)
            \/ Contains(stderr_lower, TOK_connection)
            \/ Contains(stderr_lower, TOK_timeout)
            \/ Contains(stderr_lower, TOK_unreachable)
            \/ Contains(stderr_lower, TOK_dns)
    THEN Error(NetworkError, <<>>)
    ELSE IF Contains(stderr_lower, TOK_repository) /\ Contains(stderr_lower, TOK_not_found)
    THEN Error(RepositoryNotFound, context_text)
    ELSE Error(CommandFailed, stderr_text)

(***************************************************************************)
(* Inputs of from_stderr: concatenations of at most MaxErrPieces pieces:   *)
(* the tokens in lower, mixed and upper case, parts of tokens, and text    *)
(* that holds no token.                                                    *)
(***************************************************************************)
MaxErrPieces == 2

ErrPieces ==
    { TOK_access_denied,
      <<"I", "n", "v", "a", "l", "i", "d", " ", "C", "r", "e", "d", "e", "n", "t",
        "i", "a", "l", "s">>,
      <<"A", "U", "T", "H", "O", "R", "I", "Z", "A", "T", "I", "O", "N">>,
      TOK_forbidden,
      TOK_access_key,
      <<"S", "e", "c", "r", "e", "t", " ", "K", "e", "y">>,
      TOK_network,
      <<"C", "o", "n", "n", "e", "c", "t", "i", "o", "n">>,
      TOK_timeout,
      TOK_unreachable,
      <<"D", "N", "S">>,
      TOK_repository,
      TOK_not_found,
      <<"R", "e", "p", "o", "s", "i", "t", "o", "r", "y", " ", "N", "o", "t", " ",
        "F", "o", "u", "n", "d">>,
      <<"s", "o", "m", "e", " ", "o", "t", "h", "e", "r", " ", "e", "r", "r", "o", "r">>,
      <<"a", "c", "c", "e", "s", "s">>,
      <<" ", "d", "e", "n", "i", "e", "d">>,
      <<"F", "a", "t", "a", "l", ":", " ">> }

RECURSIVE ErrTextsOfLen(_)
ErrTextsOfLen(n) ==
    IF n = 0 THEN { <<>> }
    ELSE { p \o q : p \in ErrTextsOfLen(n - 1), q \in ErrPieces }

ErrInputs == UNION { ErrTextsOfLen(n) : n \in 0..MaxErrPieces }

ErrContexts == { <<"t", "e", "s", "t">>, <<"s", "3", ":", "/", "/", "b", "/", "h", "/">> }

ErrInit ==
    /\ stderr \in ErrInputs
    /\ context \in ErrContexts
    /\ err = None

ErrIdle ==
    /\ stderr = <<>>
    /\ context = <<>>
    /\ err = None

\* a call of BackupServiceError::from_stderr(stderr, context)
FromStderr ==
    /\ err = None
    /\ err' = Some(from_stderr(stderr, context))
    /\ UNCHANGED <<stderr, context>>
    /\ UNCHANGED <<pathVars, selVars, scanVars,
                   collectVars, snapVars, convVars, lsVars, srVars>>
    /\ UNCHANGED <<rtVars, entryVars>>
    /\ UNCHANGED restVars

(***************************************************************************)
(* Time.  A DateTime<Utc> is a count of ticks since the Unix epoch, with   *)
(* TicksPerSec ticks in a second, so that instants with a fractional       *)
(* second and instants before the epoch exist.                             *)
(***************************************************************************)
TicksPerSec == 2

Sec(n) == n * TicksPerSec

\* DateTime::timestamp(): whole seconds since the epoch, rounded down
timestamp(t) == t \div TicksPerSec

\* DateTime::from_timestamp(secs, 0)
from_timestamp(secs) == secs * TicksPerSec

\* the % operator of Rust on i64: the remainder has the sign of the dividend
RustRem(a, b) == IF a >= 0 THEN a % b ELSE -((-a) % b)

\* the window length in seconds (ts.timestamp() % 300)
WINDOW_SECS == 300

\* Duration::minutes(5)
FiveMinutes == Sec(5 * 60)

(***************************************************************************)
(* select_timestamp (src/shared/ui.rs; the same code is inlined in         *)
(* restore_interactive, src/restore.rs).                                   *)
(***************************************************************************)

\* selected_repos.iter().flat_map(|r| &r.snapshots).map(|s| s.time)
RECURSIVE FlatTimes(_)
FlatTimes(items) ==
    IF items = <<>> THEN <<>>
    ELSE [k \in 1..Len(items[1].snapshots) |-> items[1].snapshots[k].time]
            \o FlatTimes(Tail(items))

\* insertion of one instant into an ascending list
RECURSIVE InsertSorted(_, _)
InsertSorted(sorted, t) ==
    IF sorted = <<>> THEN <<t>>
    ELSE IF t <= Head(sorted) THEN <<t>> \o sorted
    ELSE <<Head(sorted)>> \o InsertSorted(Tail(sorted), t)

\* Vec::sort
RECURSIVE Sort(_)
Sort(seq) ==
    IF seq = <<>> THEN <<>>
    ELSE InsertSorted(Sort(Tail(seq)), Head(seq))

\* Vec::reverse
Reverse(seq) == [i \in 1..Len(seq) |-> seq[Len(seq) + 1 - i]]

\* Vec::dedup: removes consecutive repeated elements
RECURSIVE Dedup(_)
Dedup(seq) ==
    IF Len(seq) <= 1 THEN seq
    ELSE IF seq[1] = seq[2] THEN Dedup(Tail(seq))
    ELSE <<seq[1]>> \o Dedup(Tail(seq))

\* all_timestamps after sort(), reverse(), dedup()
AllTimestamps(items) == Dedup(Reverse(Sort(FlatTimes(items))))

\* Vec::contains
SeqContains(seq, x) == \E i \in 1..Len(seq) : seq[i] = x

\* let window_start = ts.timestamp() - (ts.timestamp() % 300);
\* let window_time = DateTime::from_timestamp(window_start, 0)
window_time_of(ts) ==
    from_timestamp(timestamp(ts) - RustRem(timestamp(ts), WINDOW_SECS))

\* all_timestamps.iter().filter(|t| t >= window_time && t < window_end).count()
WindowCount(all_timestamps, window_time) ==
    Cardinality({ i \in 1..Len(all_timestamps) :
                    /\ all_timestamps[i] >= window_time
                    /\ all_timestamps[i] < window_time + FiveMinutes })

\* the loop "for ts in &all_timestamps" that fills window_times and the
\* labels (of a label only the count is kept)
RECURSIVE BuildWindows(_, _, _)
BuildWindows(all_timestamps, i, acc) ==
    IF i > Len(all_timestamps) THEN acc
    ELSE
        LET window_time == window_time_of(all_timestamps[i]) IN
        IF ~SeqContains(acc.times, window_time)
        THEN BuildWindows(all_timestamps, i + 1,
                [times |-> Append(acc.times, window_time),
                 counts |-> Append(acc.counts, WindowCount(all_timestamps, window_time))])
        ELSE BuildWindows(all_timestamps, i + 1, acc)

(***************************************************************************)
(* Best-snapshot selection (RestoreWorkflow::restore_repositories,         *)
(* src/shared/restore_workflow.rs; the same expression is in               *)
(* restore_interactive, src/restore.rs).                                   *)
(***************************************************************************)

\* Iterator::max_by_key(|s| s.time): the last element with the maximum time
RECURSIVE MaxByTimeFrom(_, _)
MaxByTimeFrom(seq, best) ==
    IF seq = <<>> THEN best
    ELSE IF best = None \/ Head(seq).time >= Unwrap(best).time
    THEN MaxByTimeFrom(Tail(seq), Some(Head(seq)))
    ELSE MaxByTimeFrom(Tail(seq), best)

MaxByTime(seq) == MaxByTimeFrom(seq, None)

\* the selection with the end of the window included in the window
best_snapshot_closed_window(snapshots, ts) ==
    LET window_end == ts + FiveMinutes
        InWindow(s) == s.time >= ts /\ s.time <= window_end
        Before(s) == s.time < ts
        in_window == MaxByTime(SelectSeq(snapshots, InWindow))
    IN  IF in_window /= None THEN in_window
        ELSE MaxByTime(SelectSeq(snapshots, Before))

\* let best_snapshot = repo.snapshots.iter().filter(in window).max_by_key(time)
\*     .or_else(|| repo.snapshots.iter().filter(before).max_by_key(time))
best_snapshot_of(snapshots, ts) ==
    LET window_end == ts + FiveMinutes
        InWindow(s) == s.time >= ts /\ s.time < window_end
        Before(s) == s.time < ts
        in_window == MaxByTime(SelectSeq(snapshots, InWindow))
    IN  IF in_window /= None THEN in_window
        ELSE MaxByTime(SelectSeq(snapshots, Before))

(***************************************************************************)
(* A restore session after repository selection: select_timestamp, then    *)
(* one step per repository of the loop of restore_repositories.            *)
(***************************************************************************)
MaxRepos == 2
MaxSnaps == 3

\* the instants snapshots are taken at: before the epoch, with and without
\* a fractional second, on a window boundary and just below the next one
SnapshotTimes == { Sec(-301), -1, 0, Sec(300) - 1, Sec(300) }

\* timestamps given on the command line: one that parses (an instant off
\* the window boundaries) and one that does not
ExplicitTimestamps == { [parses |-> TRUE, t |-> Sec(1)], [parses |-> FALSE, t |-> 0] }

SeqsUpTo(S, n) == UNION { [1..k -> S] : k \in 1..n }

\* the snapshots of the repositories selected, given the instants of all
\* of them and the positions after which the next repository begins: ids
\* are unique, times are free
SnapshotLists(times, cuts) ==
    LET ends == PickFrom([k \in 1..Len(times) |-> k], cuts \cup {Len(times)})
        begin(r) == IF r = 1 THEN 0 ELSE ends[r - 1]
    IN  [r \in 1..Len(ends) |->
           [snapshots |-> [k \in 1..(ends[r] - begin(r)) |->
                             [id |-> <<r, k>>, time |-> times[begin(r) + k]]]]]

\* every repository that reaches the selection has at least one snapshot
\* (convert_to_selection_items, get_repo_snapshots) and at least one
\* repository is selected (select_repositories); at most MaxRepos
\* repositories hold at most MaxSnaps snapshots together
RepoSelections ==
    UNION { { SnapshotLists(times, cuts) :
                cuts \in { c \in SUBSET (1..(Len(times) - 1)) :
                             Cardinality(c) < MaxRepos } } :
            times \in SeqsUpTo(SnapshotTimes, MaxSnaps) }

SelInit ==
    /\ selected_repos \in RepoSelections
    /\ timestamp_opt \in {None} \cup { Some(e) : e \in ExplicitTimestamps }
    /\ window_times = <<>>
    /\ window_counts = <<>>
    /\ selected_timestamp = None
    /\ restore_log = <<>>
    /\ restored_count = 0
    /\ skipped_count = 0
    /\ restore_result = None
    /\ pcR = "select_timestamp"

SelIdle ==
    /\ selected_repos = <<>>
    /\ timestamp_opt = None
    /\ window_times = <<>>
    /\ window_counts = <<>>
    /\ selected_timestamp = None
    /\ restore_log = <<>>
    /\ restored_count = 0
    /\ skipped_count = 0
    /\ restore_result = None
    /\ pcR = "idle"

\* select_timestamp: an explicit timestamp is parsed; otherwise the windows
\* are built and the operator picks one of them
SelectTimestamp ==
    /\ pcR = "select_timestamp"
    /\ IF timestamp_opt /= None THEN
           /\ UNCHANGED <<window_times, window_counts>>
           /\ IF Unwrap(timestamp_opt).parses
              THEN /\ selected_timestamp' = Some(Unwrap(timestamp_opt).t)
                   /\ pcR' = "restore"
                   /\ UNCHANGED restore_result
              ELSE /\ restore_result' = "ChronoError"
                   /\ pcR' = "done"
                   /\ UNCHANGED selected_timestamp
       ELSE
           LET all_timestamps == AllTimestamps(selected_repos) IN
           IF all_timestamps = <<>>
           THEN /\ restore_result' = "ConfigurationError"
                /\ pcR' = "done"
                /\ UNCHANGED <<window_times, window_counts, selected_timestamp>>
           ELSE
               LET built == BuildWindows(all_timestamps, 1,
                                         [times |-> <<>>, counts |-> <<>>])
               IN  /\ window_times' = built.times
                   /\ window_counts' = built.counts
                   /\ \E selection \in 1..Len(built.times) :
                         selected_timestamp' = Some(built.times[selection])
                   /\ pcR' = "restore"
                   /\ UNCHANGED restore_result
    /\ UNCHANGED <<selected_repos, timestamp_opt, restore_log, restored_count,
                   skipped_count>>
    /\ UNCHANGED <<pathVars, errVars, scanVars,
                   collectVars, snapVars, convVars, lsVars, srVars>>
    /\ UNCHANGED <<rtVars, entryVars>>
    /\ UNCHANGED restVars

\* the loop of restore_repositories counting a repository as restored
\* whatever its restore command returned
RestoreRepository_ignore_failure ==
    /\ pcR = "restore"
    /\ restore_entry = "restore_workflow"
    /\ Len(restore_log) < Len(selected_repos)
    /\ LET idx == Len(restore_log) + 1
           repo == selected_repos[idx]
           best_snapshot == best_snapshot_of(repo.snapshots, Unwrap(selected_timestamp))
           last == idx = Len(selected_repos)
       IN  IF best_snapshot /= None THEN
               \E outcome \in {"Ok"} \cup ErrorKinds :
                  /\ restore_log' = Append(restore_log,
                        [chosen |-> best_snapshot, outcome |-> outcome])
                  /\ restored_count' = restored_count + 1
                  /\ restore_result' = IF last THEN "Ok" ELSE None
                  /\ pcR' = IF last THEN "done" ELSE "restore"
                  /\ UNCHANGED skipped_count
           ELSE
               /\ restore_log' = Append(restore_log,
                     [chosen |-> None, outcome |-> "none"])
               /\ skipped_count' = skipped_count + 1
               /\ restore_result' = IF last THEN "Ok" ELSE None
               /\ pcR' = IF last THEN "done" ELSE "restore"
               /\ UNCHANGED restored_count
    /\ UNCHANGED <<selected_repos, timestamp_opt, window_times, window_counts,
                   selected_timestamp>>
    /\ UNCHANGED <<pathVars, errVars, scanVars,
                   collectVars, snapVars, convVars, lsVars, srVars>>
    /\ UNCHANGED <<rtVars, entryVars>>
    /\ UNCHANGED restVars

\* one iteration of "for (idx, repo) in selected_repos.iter().enumerate()":
\* choose the best snapshot, run the restore command of the engine, count;
\* after the last repository the function returns Ok((restored, skipped))
RestoreRepository ==
    /\ pcR = "restore"
    /\ restore_entry = "restore_workflow"
    /\ Len(restore_log) < Len(selected_repos)
    /\ LET idx == Len(restore_log) + 1
           repo == selected_repos[idx]
           best_snapshot == best_snapshot_of(repo.snapshots, Unwrap(selected_timestamp))
           last == idx = Len(selected_repos)
       IN  IF best_snapshot /= None THEN
               \E outcome \in {"Ok"} \cup ErrorKinds :
                  /\ restore_log' = Append(restore_log,
                        [chosen |-> best_snapshot, outcome |-> outcome])
                  /\ IF outcome = "Ok"
                     THEN /\ restored_count' = restored_count + 1
                          /\ restore_result' = IF last THEN "Ok" ELSE None
                          /\ pcR' = IF last THEN "done" ELSE "restore"
                     ELSE \* .await? returns the error of the restore command
                          /\ restore_result' = outcome
                          /\ pcR' = "done"
                          /\ UNCHANGED restored_count
                  /\ UNCHANGED skipped_count
           ELSE
               /\ restore_log' = Append(restore_log,
                     [chosen |-> None, outcome |-> "none"])
               /\ skipped_count' = skipped_count + 1
               /\ restore_result' = IF last THEN "Ok" ELSE None
               /\ pcR' = IF last THEN "done" ELSE "restore"
               /\ UNCHANGED restored_count
    /\ UNCHANGED <<selected_repos, timestamp_opt, window_times, window_counts,
                   selected_timestamp>>
    /\ UNCHANGED <<pathVars, errVars, scanVars,
                   collectVars, snapVars, convVars, lsVars, srVars>>
    /\ UNCHANGED <<rtVars, entryVars>>
    /\ UNCHANGED restVars

(***************************************************************************)
(* RepositoryScanner (src/helpers.rs).                                     *)
(***************************************************************************)
DOCKER_VOLUMES_DIR == SubSeq(DOCKER_VOLUMES_DIR_WITH_SLASH, 1,
                             Len(DOCKER_VOLUMES_DIR_WITH_SLASH) - 1)
DIR_data == <<"d", "a", "t", "a">>
DIR_index == <<"i", "n", "d", "e", "x">>
DIR_keys == <<"k", "e", "y", "s">>
DIR_snapshots == <<"s", "n", "a", "p", "s", "h", "o", "t", "s">>
DIR_locks == <<"l", "o", "c", "k", "s">>

\* RepositoryScanner::is_restic_internal_dir comparing without regard to case
is_restic_internal_dir_ignore_case(dir_name) ==
    ToLowercase(dir_name) \in {DIR_data, DIR_index, DIR_keys, DIR_snapshots, DIR_locks}

\* RepositoryScanner::is_restic_internal_dir
is_restic_internal_dir(dir_name) ==
    dir_name \in {DIR_data, DIR_index, DIR_keys, DIR_snapshots, DIR_locks}

\* RepositoryScanner::build_s3_path
build_s3_path(base_path, host, cat) ==
    IF base_path = <<>>
    THEN host \o SLASH \o cat
    ELSE base_path \o SLASH \o host \o SLASH \o cat

\* struct RepositoryInfo
RepositoryInfo(native_path, subpath, cat) ==
    [native_path |-> native_path, repo_subpath |-> subpath, category |-> cat]

\* the RepositoryInfo pushed for one leaf of a user (scan_user_home_repositories)
user_home_repo_info(user, subdir) ==
    RepositoryInfo(HOME_DIR_WITH_SLASH \o user \o SLASH \o s3_to_native_path(subdir),
                   CATEGORY_USER_HOME \o SLASH \o user \o SLASH \o subdir,
                   CATEGORY_USER_HOME)

\* the RepositoryInfo pushed for one leaf of the system prefix
\* (scan_system_repositories)
system_repo_info(leaf) ==
    RepositoryInfo(SLASH \o s3_to_native_path(leaf),
                   CATEGORY_SYSTEM \o SLASH \o leaf,
                   CATEGORY_SYSTEM)

\* RepositoryScanner::create_docker_volume_repo_info
create_docker_volume_repo_info(volume) ==
    RepositoryInfo(DOCKER_VOLUMES_DIR_WITH_SLASH \o volume,
                   CATEGORY_DOCKER_VOLUME \o SLASH \o volume,
                   CATEGORY_DOCKER_VOLUME)

\* the RepositoryInfo pushed for a nested repository
\* (scan_nested_docker_repositories)
nested_repo_info(volume, nested_repo) ==
    RepositoryInfo(DOCKER_VOLUMES_DIR_WITH_SLASH \o volume \o SLASH \o nested_repo,
                   CATEGORY_DOCKER_VOLUME \o SLASH \o volume \o SLASH \o nested_repo,
                   CATEGORY_DOCKER_VOLUME)

\* the result of one call of list_s3_dirs
ListOk(dirs) == [ok |-> TRUE, dirs |-> dirs, kind |-> "none"]
ListErr(kind) == [ok |-> FALSE, dirs |-> <<>>, kind |-> kind]

\* "if let Ok(dirs) = self.list_s3_dirs(..).await": the names when the
\* listing succeeded, nothing when it failed
DirsIfOk(outcome) == IF outcome.ok THEN outcome.dirs ELSE <<>>

\* the body of "for nested_repo in nested" of scan_nested_docker_repositories
RECURSIVE NestedInfos(_, _)
NestedInfos(volume, nested) ==
    IF nested = <<>> THEN <<>>
    ELSE (IF ~is_restic_internal_dir(Head(nested))
          THEN <<nested_repo_info(volume, Head(nested))>>
          ELSE <<>>) \o NestedInfos(volume, Tail(nested))

(***************************************************************************)
(* The object store as the scan sees it: every listing returns at most     *)
(* MaxDirs names, in the order of the store, or fails with one of the      *)
(* error kinds of from_stderr.                                             *)
(***************************************************************************)
MaxDirs == 2

ScanHostnames == { <<"h", "o", "s", "t", "1">> }
ScanBasePaths == { <<>>, <<"b", "a", "c", "k", "u", "p", "s">> }

UserNames == << <<"t", "i", "m">> >>
HomeLeafNames ==
    << <<"d", "a", "t", "a">>,
       <<"m", "y", "_", "d", "e", "e", "p", "_", "p", "a", "t", "h">> >>
VolumeNames == << <<"a", "p", "p">>, <<"m", "y", " ", "d", "b">> >>
NestedNames ==
    << DIR_data, DIR_index, DIR_keys, DIR_snapshots,
       <<"r", "e", "a", "l", "-", "a", "p", "p">>,
       <<"D", "a", "t", "a">> >>
SystemNames ==
    << <<"e", "t", "c", "_", "n", "g", "i", "n", "x", "_", "c", "o", "n", "f">>,
       <<"h", "o", "m", "e", "_", "t", "i", "m", "_", "x">> >>

\* the listings a prefix can return: distinct names of the pool
DirLists(pool) ==
    { PickFrom(pool, S) : S \in { T \in SUBSET (1..Len(pool)) : Cardinality(T) <= MaxDirs } }

ListOutcomes(pool) ==
    { ListOk(dirs) : dirs \in DirLists(pool) } \cup { ListErr(k) : k \in ErrorKinds }

ScanInit ==
    /\ hostname \in ScanHostnames
    /\ s3_base_path \in ScanBasePaths
    /\ users_todo = <<>>
    /\ volumes_todo = <<>>
    /\ repos = <<>>
    /\ listings = <<>>
    /\ scan_result = None
    /\ pcS = "user_home"

ScanIdle ==
    /\ hostname = <<>>
    /\ s3_base_path = <<>>
    /\ users_todo = <<>>
    /\ volumes_todo = <<>>
    /\ repos = <<>>
    /\ listings = <<>>
    /\ scan_result = None
    /\ pcS = "idle"

Listed(s3_path, outcome) == Append(listings, [s3_path |-> s3_path, outcome |-> outcome])

\* scan_user_home_repositories: the listing of <host>/user_home
ListUserHome ==
    /\ pcS = "user_home"
    /\ \E outcome \in ListOutcomes(UserNames) :
          LET user_home_path == build_s3_path(s3_base_path, hostname, CATEGORY_USER_HOME)
              users == DirsIfOk(outcome)
          IN  /\ listings' = Listed(user_home_path, outcome)
              /\ users_todo' = users
              /\ pcS' = IF users = <<>> THEN "docker_volume" ELSE "user_dirs"
    /\ UNCHANGED <<hostname, s3_base_path, volumes_todo, repos, scan_result>>
    /\ UNCHANGED <<pathVars, errVars, selVars,
                   collectVars, snapVars, convVars, lsVars, srVars>>
    /\ UNCHANGED <<rtVars, entryVars>>
    /\ UNCHANGED restVars

\* scan_user_home_repositories: the listing of <host>/user_home/<user> and
\* the RepositoryInfo of each of its names
ListUserDirs ==
    /\ pcS = "user_dirs"
    /\ \E outcome \in ListOutcomes(HomeLeafNames) :
          LET user == Head(users_todo)
              user_path == build_s3_path(s3_base_path, hostname, CATEGORY_USER_HOME)
                              \o SLASH \o user
              subdirs == DirsIfOk(outcome)
          IN  /\ listings' = Listed(user_path, outcome)
              /\ repos' = repos \o [k \in 1..Len(subdirs) |->
                                        user_home_repo_info(user, subdirs[k])]
              /\ users_todo' = Tail(users_todo)
              /\ pcS' = IF Tail(users_todo) = <<>> THEN "docker_volume" ELSE "user_dirs"
    /\ UNCHANGED <<hostname, s3_base_path, volumes_todo, scan_result>>
    /\ UNCHANGED <<pathVars, errVars, selVars,
                   collectVars, snapVars, convVars, lsVars, srVars>>
    /\ UNCHANGED <<rtVars, entryVars>>
    /\ UNCHANGED restVars

\* scan_docker_volume_repositories returning the error of a failed listing
\* of <host>/docker_volume to the caller of scan_repositories
ListDockerVolumes_propagate ==
    /\ pcS = "docker_volume"
    /\ \E outcome \in ListOutcomes(VolumeNames) :
          LET docker_path == build_s3_path(s3_base_path, hostname, CATEGORY_DOCKER_VOLUME)
              volumes == DirsIfOk(outcome)
          IN  /\ listings' = Listed(docker_path, outcome)
              /\ volumes_todo' = volumes
              /\ IF outcome.ok
                 THEN /\ pcS' = IF volumes = <<>> THEN "system" ELSE "volume_dirs"
                      /\ UNCHANGED scan_result
                 ELSE /\ pcS' = "done"
                      /\ scan_result' = Some([ok |-> FALSE, repos |-> <<>>,
                                               kind |-> outcome.kind])
    /\ UNCHANGED <<hostname, s3_base_path, users_todo, repos>>
    /\ UNCHANGED <<pathVars, errVars, selVars,
                   collectVars, snapVars, convVars, lsVars, srVars>>
    /\ UNCHANGED <<rtVars, entryVars>>
    /\ UNCHANGED restVars

\* scan_docker_volume_repositories: the listing of <host>/docker_volume
ListDockerVolumes ==
    /\ pcS = "docker_volume"
    /\ \E outcome \in ListOutcomes(VolumeNames) :
          LET docker_path == build_s3_path(s3_base_path, hostname, CATEGORY_DOCKER_VOLUME)
              volumes == DirsIfOk(outcome)
          IN  /\ listings' = Listed(docker_path, outcome)
              /\ volumes_todo' = volumes
              /\ pcS' = IF volumes = <<>> THEN "system" ELSE "volume_dirs"
    /\ UNCHANGED <<hostname, s3_base_path, users_todo, repos, scan_result>>
    /\ UNCHANGED <<pathVars, errVars, selVars,
                   collectVars, snapVars, convVars, lsVars, srVars>>
    /\ UNCHANGED <<rtVars, entryVars>>
    /\ UNCHANGED restVars

\* scan_docker_volume_repositories for one volume: the RepositoryInfo of the
\* volume, then scan_nested_docker_repositories: the listing of
\* <host>/docker_volume/<volume> and the RepositoryInfo of each name that is
\* not an internal directory of the engine
ListVolumeDirs ==
    /\ pcS = "volume_dirs"
    /\ \E outcome \in ListOutcomes(NestedNames) :
          LET volume == Head(volumes_todo)
              volume_path == build_s3_path(s3_base_path, hostname, CATEGORY_DOCKER_VOLUME)
                                \o SLASH \o volume
              nested == DirsIfOk(outcome)
          IN  /\ listings' = Listed(volume_path, outcome)
              /\ repos' = repos \o <<create_docker_volume_repo_info(volume)>>
                                \o NestedInfos(volume, nested)
              /\ volumes_todo' = Tail(volumes_todo)
              /\ pcS' = IF Tail(volumes_todo) = <<>> THEN "system" ELSE "volume_dirs"
    /\ UNCHANGED <<hostname, s3_base_path, users_todo, scan_result>>
    /\ UNCHANGED <<pathVars, errVars, selVars,
                   collectVars, snapVars, convVars, lsVars, srVars>>
    /\ UNCHANGED <<rtVars, entryVars>>
    /\ UNCHANGED restVars

\* scan_system_repositories: the listing of <host>/system and the
\* RepositoryInfo of each of its names; then scan_repositories returns Ok
ListSystem ==
    /\ pcS = "system"
    /\ \E outcome \in ListOutcomes(SystemNames) :
          LET system_path == build_s3_path(s3_base_path, hostname, CATEGORY_SYSTEM)
              paths == DirsIfOk(outcome)
              all == repos \o [k \in 1..Len(paths) |-> system_repo_info(paths[k])]
          IN  /\ listings' = Listed(system_path, outcome)
              /\ repos' = all
              /\ scan_result' = Some([ok |-> TRUE, repos |-> all, kind |-> "none"])
              /\ pcS' = "done"
    /\ UNCHANGED <<hostname, s3_base_path, users_todo, volumes_todo>>
    /\ UNCHANGED <<pathVars, errVars, selVars,
                   collectVars, snapVars, convVars, lsVars, srVars>>
    /\ UNCHANGED <<rtVars, entryVars>>
    /\ UNCHANGED restVars

(***************************************************************************)
(* The native path the scan rebuilds from a repository key                 *)
(* (src/helpers.rs, scan_user_home_repositories, scan_system_repositories  *)
(* and create_docker_volume_repo_info).                                    *)
(***************************************************************************)

\* the native path of the RepositoryInfo the scan pushes for the key
\* <category>/<...>: the leaf of a user or of the system prefix is decoded
\* with s3_to_native_path, a volume name is taken as it is
scan_native_path(key) ==
    LET parts == Split(key, "/") IN
    IF \E i \in 1..Len(parts) : parts[i] = <<>>
    THEN None   \* list_s3_dirs returns no empty name
    ELSE IF Len(parts) = 3 /\ parts[1] = CATEGORY_USER_HOME
    THEN Some(user_home_repo_info(parts[2], parts[3]).native_path)
    ELSE IF Len(parts) = 2 /\ parts[1] = CATEGORY_SYSTEM
    THEN Some(system_repo_info(parts[2]).native_path)
    ELSE IF Len(parts) = 2 /\ parts[1] = CATEGORY_DOCKER_VOLUME
    THEN Some(create_docker_volume_repo_info(parts[2]).native_path)
    ELSE None

RoundTripIdle == round_trip = None

\* the scan finds the repository stored under the key of path and rebuilds
\* its native path
ScanNativePath ==
    /\ IsSome(repo_subpath)
    /\ round_trip = None
    /\ scan_native_path(Unwrap(repo_subpath)) /= None
    /\ round_trip' = scan_native_path(Unwrap(repo_subpath))
    /\ UNCHANGED <<pathVars, errVars, selVars, scanVars, entryVars,
                   collectVars, snapVars, convVars, lsVars, srVars>>
    /\ UNCHANGED restVars

(***************************************************************************)
(* collect_backup_data (src/restore.rs): the snapshot lookup of every      *)
(* repository the scan returned, one step per repository.                  *)
(***************************************************************************)
MaxInfos == 2
MaxRecords == 2
MaxLookupRecords == 1

\* the "time" texts the engine reports
TimeTexts == { "1970-01-01T00:00:00Z", "1970-01-01T00:05:00Z", "yesterday" }

\* str::parse::<DateTime<Utc>>().ok()
parse_DateTime(text) ==
    CASE text = "1970-01-01T00:00:00Z" -> Some(0)
      [] text = "1970-01-01T00:05:00Z" -> Some(Sec(300))
      [] OTHER -> None

\* one record of "restic snapshots --json": each of "time" and "short_id"
\* is a string (Some) or is missing or not a string (None)
EngineRecords ==
    [time : {None} \cup { Some(t) : t \in TimeTexts },
     short_id : {None, Some("1a2b3c4d")}]

\* the listings of at most n records
EngineRecordListsUpTo(n) == UNION { [1..k -> EngineRecords] : k \in 0..n }

EngineRecordLists == EngineRecordListsUpTo(MaxRecords)

\* the result of ResticCommand::snapshots
SnapshotsOk(records) == [ok |-> TRUE, records |-> records, kind |-> "none"]
SnapshotsErr(kind) == [ok |-> FALSE, records |-> <<>>, kind |-> kind]

\* what one lookup of collect_backup_data can get: a listing of at most
\* MaxLookupRecords records or an error
SnapshotOutcomes ==
    { SnapshotsOk(records) : records \in EngineRecordListsUpTo(MaxLookupRecords) }
        \cup { SnapshotsErr(k) : k \in ErrorKinds }

\* the filter_map of get_repo_snapshots: a record without a parsable
\* "time" or without a "short_id" is dropped
RECURSIVE RestoreSnapshots(_)
RestoreSnapshots(records) ==
    IF records = <<>> THEN <<>>
    ELSE LET s == Head(records)
             time == IF s.time = None THEN None ELSE parse_DateTime(Unwrap(s.time))
         IN  (IF time /= None /\ s.short_id /= None
              THEN << [id |-> Unwrap(s.short_id), time |-> Unwrap(time)] >>
              ELSE <<>>) \o RestoreSnapshots(Tail(records))

\* get_repo_snapshots: Err of the command, Ok(None) for no usable
\* snapshot, Ok(Some(list)) otherwise
get_repo_snapshots(outcome) ==
    IF ~outcome.ok THEN [ok |-> FALSE, kind |-> outcome.kind, snapshots |-> None]
    ELSE LET snapshot_list == RestoreSnapshots(outcome.records)
         IN  [ok |-> TRUE, kind |-> "none",
              snapshots |-> IF snapshot_list /= <<>> THEN Some(snapshot_list) ELSE None]

\* the repositories a scan can return to collect_backup_data
ScannedInfos ==
    << system_repo_info(<<"e", "t", "c">>),
       create_docker_volume_repo_info(<<"a", "p", "p">>),
       user_home_repo_info(<<"t", "i", "m">>, <<"d", "o", "c", "s">>) >>

CollectInit ==
    /\ repo_infos \in { SubSeq(ScannedInfos, 1, n) : n \in 0..MaxInfos }
    /\ lookups = <<>>
    /\ collected_repos = <<>>
    /\ collect_result = None
    /\ pcC = "collect"

CollectIdle ==
    /\ repo_infos = <<>>
    /\ lookups = <<>>
    /\ collected_repos = <<>>
    /\ collect_result = None
    /\ pcC = "idle"

\* the iteration with every Err of the lookup returned to the caller
GetRepoSnapshots_abort_on_error ==
    /\ pcC = "collect"
    /\ Len(lookups) < Len(repo_infos)
    /\ \E outcome \in SnapshotOutcomes :
          LET repo_info == repo_infos[Len(lookups) + 1]
              result == get_repo_snapshots(outcome)
              last == Len(lookups) + 1 = Len(repo_infos)
          IN  /\ lookups' = Append(lookups, outcome)
              /\ IF result.ok /\ result.snapshots /= None THEN
                     /\ collected_repos' = Append(collected_repos,
                            [path |-> repo_info.native_path,
                             repo_subpath |-> repo_info.repo_subpath,
                             category |-> repo_info.category,
                             snapshots |-> Unwrap(result.snapshots)])
                     /\ collect_result' =
                            IF last THEN Some([ok |-> TRUE, repos |-> collected_repos',
                                               kind |-> "none"])
                            ELSE None
                     /\ pcC' = IF last THEN "done" ELSE "collect"
                  ELSE IF ~result.ok THEN
                     /\ collect_result' = Some([ok |-> FALSE, repos |-> <<>>,
                                                kind |-> result.kind])
                     /\ pcC' = "done"
                     /\ UNCHANGED collected_repos
                  ELSE
                     \* Ok(None)
                     /\ collect_result' =
                            IF last THEN Some([ok |-> TRUE, repos |-> collected_repos,
                                               kind |-> "none"])
                            ELSE None
                     /\ pcC' = IF last THEN "done" ELSE "collect"
                     /\ UNCHANGED collected_repos
    /\ UNCHANGED repo_infos
    /\ UNCHANGED <<pathVars, errVars, selVars, scanVars, rtVars, entryVars,
                   snapVars, convVars, lsVars, srVars>>
    /\ UNCHANGED restVars

\* one iteration of "for repo_info in repo_infos" with its match
GetRepoSnapshots ==
    /\ pcC = "collect"
    /\ Len(lookups) < Len(repo_infos)
    /\ \E outcome \in SnapshotOutcomes :
          LET repo_info == repo_infos[Len(lookups) + 1]
              result == get_repo_snapshots(outcome)
              last == Len(lookups) + 1 = Len(repo_infos)
          IN  /\ lookups' = Append(lookups, outcome)
              /\ IF result.ok /\ result.snapshots /= None THEN
                     /\ collected_repos' = Append(collected_repos,
                            [path |-> repo_info.native_path,
                             repo_subpath |-> repo_info.repo_subpath,
                             category |-> repo_info.category,
                             snapshots |-> Unwrap(result.snapshots)])
                     /\ collect_result' =
                            IF last THEN Some([ok |-> TRUE, repos |-> collected_repos',
                                               kind |-> "none"])
                            ELSE None
                     /\ pcC' = IF last THEN "done" ELSE "collect"
                  ELSE IF ~result.ok /\ result.kind = AuthenticationFailed THEN
                     \* return Err(anyhow!("Authentication failed ..."))
                     /\ collect_result' = Some([ok |-> FALSE, repos |-> <<>>,
                                                kind |-> AuthenticationFailed])
                     /\ pcC' = "done"
                     /\ UNCHANGED collected_repos
                  ELSE
                     \* Ok(None), or Err(_) => continue
                     /\ collect_result' =
                            IF last THEN Some([ok |-> TRUE, repos |-> collected_repos,
                                               kind |-> "none"])
                            ELSE None
                     /\ pcC' = IF last THEN "done" ELSE "collect"
                     /\ UNCHANGED collected_repos
    /\ UNCHANGED repo_infos
    /\ UNCHANGED <<pathVars, errVars, selVars, scanVars, rtVars, entryVars,
                   snapVars, convVars, lsVars, srVars>>
    /\ UNCHANGED restVars

\* collect_backup_data with no repository to look up returns Ok(vec![])
CollectNothing ==
    /\ pcC = "collect"
    /\ repo_infos = <<>>
    /\ collect_result' = Some([ok |-> TRUE, repos |-> <<>>, kind |-> "none"])
    /\ pcC' = "done"
    /\ UNCHANGED <<repo_infos, lookups, collected_repos>>
    /\ UNCHANGED <<pathVars, errVars, selVars, scanVars, rtVars, entryVars,
                   snapVars, convVars, lsVars, srVars>>
    /\ UNCHANGED restVars

(***************************************************************************)
(* The restore loop of restore_interactive (src/restore.rs).               *)
(***************************************************************************)
RestoreEntries == {"restore_workflow", "restore_interactive"}

EntryInit == restore_entry \in RestoreEntries

EntryIdle == restore_entry = "none"

\* the iteration without the arm for NetworkError: a lost connection is
\* counted as a skipped repository
RestoreInteractiveRepository_skip_network ==
    /\ pcR = "restore"
    /\ restore_entry = "restore_interactive"
    /\ Len(restore_log) < Len(selected_repos)
    /\ LET idx == Len(restore_log) + 1
           repo == selected_repos[idx]
           best_snapshot == best_snapshot_of(repo.snapshots, Unwrap(selected_timestamp))
           last == idx = Len(selected_repos)
       IN  IF best_snapshot /= None THEN
               \E outcome \in {"Ok"} \cup ErrorKinds :
                  /\ restore_log' = Append(restore_log,
                        [chosen |-> best_snapshot, outcome |-> outcome])
                  /\ IF outcome = "Ok"
                     THEN /\ restored_count' = restored_count + 1
                          /\ restore_result' = IF last THEN "Ok" ELSE None
                          /\ pcR' = IF last THEN "done" ELSE "restore"
                          /\ UNCHANGED skipped_count
                     ELSE IF outcome \in {AuthenticationFailed}
                     THEN \* return Err(anyhow!(..))
                          /\ restore_result' = outcome
                          /\ pcR' = "done"
                          /\ UNCHANGED <<restored_count, skipped_count>>
                     ELSE \* Err(e): "Continuing with remaining repositories..."
                          /\ skipped_count' = skipped_count + 1
                          /\ restore_result' = IF last THEN "Ok" ELSE None
                          /\ pcR' = IF last THEN "done" ELSE "restore"
                          /\ UNCHANGED restored_count
           ELSE
               /\ restore_log' = Append(restore_log,
                     [chosen |-> None, outcome |-> "none"])
               /\ skipped_count' = skipped_count + 1
               /\ restore_result' = IF last THEN "Ok" ELSE None
               /\ pcR' = IF last THEN "done" ELSE "restore"
               /\ UNCHANGED restored_count
    /\ UNCHANGED <<selected_repos, timestamp_opt, window_times, window_counts,
                   selected_timestamp>>
    /\ UNCHANGED <<pathVars, errVars, scanVars, rtVars, entryVars,
                   collectVars, snapVars, convVars, lsVars, srVars>>
    /\ UNCHANGED restVars

\* one iteration of "for repo in &selected_repos" with the match on the
\* result of the restore command; after the last repository the summary
\* is printed and the function returns Ok(())
RestoreInteractiveRepository ==
    /\ pcR = "restore"
    /\ restore_entry = "restore_interactive"
    /\ Len(restore_log) < Len(selected_repos)
    /\ LET idx == Len(restore_log) + 1
           repo == selected_repos[idx]
           best_snapshot == best_snapshot_of(repo.snapshots, Unwrap(selected_timestamp))
           last == idx = Len(selected_repos)
       IN  IF best_snapshot /= None THEN
               \E outcome \in {"Ok"} \cup ErrorKinds :
                  /\ restore_log' = Append(restore_log,
                        [chosen |-> best_snapshot, outcome |-> outcome])
                  /\ IF outcome = "Ok"
                     THEN /\ restored_count' = restored_count + 1
                          /\ restore_result' = IF last THEN "Ok" ELSE None
                          /\ pcR' = IF last THEN "done" ELSE "restore"
                          /\ UNCHANGED skipped_count
                     ELSE IF outcome \in {AuthenticationFailed, NetworkError}
                     THEN \* return Err(anyhow!(..))
                          /\ restore_result' = outcome
                          /\ pcR' = "done"
                          /\ UNCHANGED <<restored_count, skipped_count>>
                     ELSE \* Err(e): "Continuing with remaining repositories..."
                          /\ skipped_count' = skipped_count + 1
                          /\ restore_result' = IF last THEN "Ok" ELSE None
                          /\ pcR' = IF last THEN "done" ELSE "restore"
                          /\ UNCHANGED restored_count
           ELSE
               /\ restore_log' = Append(restore_log,
                     [chosen |-> None, outcome |-> "none"])
               /\ skipped_count' = skipped_count + 1
               /\ restore_result' = IF last THEN "Ok" ELSE None
               /\ pcR' = IF last THEN "done" ELSE "restore"
               /\ UNCHANGED restored_count
    /\ UNCHANGED <<selected_repos, timestamp_opt, window_times, window_counts,
                   selected_timestamp>>
    /\ UNCHANGED <<pathVars, errVars, scanVars, rtVars, entryVars,
                   collectVars, snapVars, convVars, lsVars, srVars>>
    /\ UNCHANGED restVars

(***************************************************************************)
(* SnapshotCollector::get_snapshots (src/helpers.rs) over                  *)
(* ResticCommandExecutor::snapshots (src/shared/commands.rs).              *)
(***************************************************************************)

\* the output of "restic snapshots --json": text that is a JSON array of
\* records (Some), text that is not (None), or a failed command
EngineOutputs ==
    { [ok |-> TRUE, json |-> Some(records), kind |-> "none"] :
          records \in EngineRecordLists }
      \cup { [ok |-> TRUE, json |-> None, kind |-> "none"] }
      \cup { [ok |-> FALSE, json |-> None, kind |-> k] : k \in ErrorKinds }

\* ResticCommandExecutor::snapshots: the error of the command, or the
\* records, or no record when the output does not parse
\* (serde_json::from_str(&output).unwrap_or_default())
ResticCommandExecutor_snapshots(output) ==
    IF ~output.ok THEN SnapshotsErr(output.kind)
    ELSE IF output.json = None THEN SnapshotsOk(<<>>)
    ELSE SnapshotsOk(Unwrap(output.json))

\* struct SnapshotInfo
SnapshotInfo(time, native_path, id) == [time |-> time, path |-> native_path, id |-> id]

\* the filter_map of get_snapshots
RECURSIVE SnapshotInfos(_, _)
SnapshotInfos(records, native_path) ==
    IF records = <<>> THEN <<>>
    ELSE LET s == Head(records)
             time == IF s.time = None THEN None ELSE parse_DateTime(Unwrap(s.time))
         IN  (IF time /= None /\ s.short_id /= None
              THEN << SnapshotInfo(Unwrap(time), native_path, Unwrap(s.short_id)) >>
              ELSE <<>>) \o SnapshotInfos(Tail(records), native_path)

\* get_snapshots with a strict filter: a record that cannot be used makes
\* the whole listing fail
get_snapshots_fail_on_malformed(output, native_path) ==
    LET snapshots == ResticCommandExecutor_snapshots(output) IN
    IF ~snapshots.ok
    THEN [ok |-> FALSE, kind |-> snapshots.kind, count |-> 0, snapshot_infos |-> <<>>]
    ELSE IF Len(SnapshotInfos(snapshots.records, native_path)) < Len(snapshots.records)
    THEN [ok |-> FALSE, kind |-> CommandFailed, count |-> 0, snapshot_infos |-> <<>>]
    ELSE [ok |-> TRUE, kind |-> "none",
          count |-> Len(snapshots.records),
          snapshot_infos |-> SnapshotInfos(snapshots.records, native_path)]

\* SnapshotCollector::get_snapshots
get_snapshots(output, native_path) ==
    LET snapshots == ResticCommandExecutor_snapshots(output) IN
    IF ~snapshots.ok
    THEN [ok |-> FALSE, kind |-> snapshots.kind, count |-> 0, snapshot_infos |-> <<>>]
    ELSE [ok |-> TRUE, kind |-> "none",
          count |-> Len(snapshots.records),
          snapshot_infos |-> SnapshotInfos(snapshots.records, native_path)]

RequestedPaths ==
    { <<"/", "e", "t", "c">>, <<"/", "h", "o", "m", "e", "/", "t", "i", "m", "/", "m", "y", " ", "d">> }

SnapInit ==
    /\ engine_records \in { Some(output) : output \in EngineOutputs }
    /\ requested_path \in RequestedPaths
    /\ snapshot_result = None
    /\ list_report = None

SnapIdle ==
    /\ engine_records = None
    /\ requested_path = <<>>
    /\ snapshot_result = None
    /\ list_report = None

\* a call of SnapshotCollector::get_snapshots(repo_subpath, native_path)
GetSnapshots ==
    /\ engine_records /= None
    /\ snapshot_result = None
    /\ snapshot_result' = Some(get_snapshots(Unwrap(engine_records), requested_path))
    /\ UNCHANGED <<engine_records, requested_path, list_report>>
    /\ UNCHANGED <<pathVars, errVars, selVars, scanVars, rtVars, entryVars,
                   collectVars, convVars, lsVars, srVars>>
    /\ UNCHANGED restVars

\* BackupRepo::new(native_path).with_count(count)
BackupRepo_with_count(native_path, count) ==
    [native_path |-> native_path, snapshot_count |-> count]

\* the match of list_backups on the result of get_snapshots for one
\* repository: Ok with count > 0 pushes the repository and extends
\* all_snapshots; Err(AuthenticationFailed) returns an error; any other
\* Err continues
list_backups_match(result, native_path) ==
    IF result.ok THEN
        IF result.count > 0
        THEN [ok |-> TRUE,
              repos |-> << BackupRepo_with_count(native_path, result.count) >>,
              all_snapshots |-> result.snapshot_infos]
        ELSE [ok |-> TRUE, repos |-> <<>>, all_snapshots |-> <<>>]
    ELSE IF result.kind = AuthenticationFailed
    THEN [ok |-> FALSE, repos |-> <<>>, all_snapshots |-> <<>>]
    ELSE [ok |-> TRUE, repos |-> <<>>, all_snapshots |-> <<>>]

\* list_backups taking the result of get_snapshots for the repository
ListBackupsRepository ==
    /\ snapshot_result /= None
    /\ list_report = None
    /\ list_report' = Some(list_backups_match(Unwrap(snapshot_result), requested_path))
    /\ UNCHANGED <<engine_records, requested_path, snapshot_result>>
    /\ UNCHANGED <<pathVars, errVars, selVars, scanVars, rtVars, entryVars,
                   collectVars, convVars, lsVars, srVars>>
    /\ UNCHANGED restVars

(***************************************************************************)
(* RepositoryOperations::convert_to_selection_items                        *)
(* (src/shared/operations.rs).                                             *)
(***************************************************************************)
MaxData == 2

\* struct RepositoryData
RepositoryData(info, snapshots, snapshot_count) ==
    [info |-> info, snapshots |-> snapshots, snapshot_count |-> snapshot_count]

\* the snapshots a RepositoryData can hold for the repository info
SnapshotInfoLists(info) ==
    { SnapshotInfos(records, info.native_path) : records \in EngineRecordLists }

\* the RepositoryData of the first n scanned repositories: the count is
\* the number of engine records, the list may be shorter (get_snapshots)
RECURSIVE RepositoryDataLists(_)
RepositoryDataLists(n) ==
    IF n = 0 THEN { <<>> }
    ELSE { Append(data, RepositoryData(ScannedInfos[n], d.snapshots, d.count)) :
             data \in RepositoryDataLists(n - 1),
             d \in { x \in [snapshots : SnapshotInfoLists(ScannedInfos[n]),
                            count : 0..MaxRecords] :
                       x.count >= Len(x.snapshots) } }

\* .map(|s| SnapshotItem { id: s.id, time: s.time })
SnapshotItems(snapshots) ==
    [k \in 1..Len(snapshots) |-> [id |-> snapshots[k].id, time |-> snapshots[k].time]]

\* the loop body without the test of is_empty: every RepositoryData
\* becomes an item
selection_items_of_keep_empty(repo_info) ==
    << [path |-> repo_info.info.native_path,
        repo_subpath |-> repo_info.info.repo_subpath,
        category |-> repo_info.info.category,
        snapshots |-> SnapshotItems(repo_info.snapshots)] >>

\* the body of the loop of convert_to_selection_items: the item pushed for
\* one RepositoryData, if any
selection_items_of(repo_info) ==
    IF repo_info.snapshots /= <<>>
    THEN << [path |-> repo_info.info.native_path,
             repo_subpath |-> repo_info.info.repo_subpath,
             category |-> repo_info.info.category,
             snapshots |-> SnapshotItems(repo_info.snapshots)] >>
    ELSE <<>>

\* RepositoryOperations::convert_to_selection_items
RECURSIVE convert_to_selection_items(_)
convert_to_selection_items(data) ==
    IF data = <<>> THEN <<>>
    ELSE selection_items_of(Head(data)) \o convert_to_selection_items(Tail(data))

ConvInit ==
    /\ repo_data \in UNION { RepositoryDataLists(n) : n \in 0..MaxData }
    /\ selection_items = None

ConvIdle ==
    /\ repo_data = <<>>
    /\ selection_items = None

\* a call of convert_to_selection_items(repo_data); the result is always Ok
ConvertToSelectionItems ==
    /\ selection_items = None
    /\ selection_items' = Some(convert_to_selection_items(repo_data))
    /\ UNCHANGED repo_data
    /\ UNCHANGED <<pathVars, errVars, selVars, scanVars, rtVars, entryVars,
                   collectVars, snapVars, lsVars, srVars>>
    /\ UNCHANGED restVars

(***************************************************************************)
(* The parser of the object-store listing: RepositoryScanner::list_s3_dirs *)
(* (src/helpers.rs) and S3CommandExecutor::list_directories                *)
(* (src/shared/commands.rs) hold the same code.                            *)
(***************************************************************************)
MaxLines == 2

NEWLINE == <<"\n">>
PRE == <<"P", "R", "E">>
PRE_SPACE == <<"P", "R", "E", " ">>

\* str::trim_end_matches(ch)
RECURSIVE TrimEndMatches(_, _)
TrimEndMatches(s, ch) ==
    IF s /= <<>> /\ s[Len(s)] = ch
    THEN TrimEndMatches(SubSeq(s, 1, Len(s) - 1), ch)
    ELSE s

\* str::find(pattern): the index of the first occurrence, 0 for None
RECURSIVE FindFrom(_, _, _)
FindFrom(s, pattern, i) ==
    IF i + Len(pattern) - 1 > Len(s) THEN 0
    ELSE IF SubSeq(s, i, i + Len(pattern) - 1) = pattern THEN i
    ELSE FindFrom(s, pattern, i + 1)

Find(s, pattern) == FindFrom(s, pattern, 1)

\* str::lines(): split at "\n", one "\r" before it removed, no empty last line
RECURSIVE Lines(_)
Lines(text) ==
    IF text = <<>> THEN <<>>
    ELSE LET i == FindChar(text, "\n")
             raw == IF i = 0 THEN text ELSE SubSeq(text, 1, i - 1)
             line == IF raw /= <<>> /\ raw[Len(raw)] = "\r" /\ i /= 0
                     THEN SubSeq(raw, 1, Len(raw) - 1) ELSE raw
         IN  <<line>> \o (IF i = 0 THEN <<>> ELSE Lines(SubSeq(text, i + 1, Len(text))))

\* the closure of .map(|line| ..): the text after the first "PRE ", its
\* trailing '/' removed, or the empty string
dir_name_of(line) ==
    LET start == Find(line, PRE_SPACE) IN
    IF start /= 0
    THEN TrimEndMatches(SubSeq(line, start + 4, Len(line)), "/")
    ELSE <<>>

\* lines().filter(contains("PRE")).map(..).filter(!is_empty()).collect()
RECURSIVE DirsOfLines(_)
DirsOfLines(lines) ==
    IF lines = <<>> THEN <<>>
    ELSE LET line == Head(lines)
             d == IF Contains(line, PRE) THEN dir_name_of(line) ELSE <<>>
         IN  (IF Contains(line, PRE) /\ d /= <<>> THEN <<d>> ELSE <<>>)
                 \o DirsOfLines(Tail(lines))

parse_s3_dirs(text) == DirsOfLines(Lines(text))

\* what the object store holds under the prefix listed: directories
\* (common prefixes) and objects, each with its name
S3Entries ==
    { [is_dir |-> TRUE, name |-> <<"a", " ", "b">>],
      [is_dir |-> TRUE, name |-> <<" ", "x", " ">>],
      [is_dir |-> TRUE, name |-> <<"P", "R", "E", " ", "d">>],
      [is_dir |-> TRUE, name |-> <<"m", "y", "_", "d", "b">>],
      [is_dir |-> TRUE, name |-> <<"d", "a", "t", "a">>],
      [is_dir |-> FALSE, name |-> <<"c", "o", "n", "f", "i", "g">>],
      [is_dir |-> FALSE, name |-> <<"E", "X", "P", "R", "E", "S", "S">>],
      [is_dir |-> FALSE, name |-> <<"M", "Y", " ", "P", "R", "E", " ", "f">>] }

\* the line "aws s3 ls" prints for an entry: "PRE <name>/" for a directory,
\* "<size> <key>" for an object (the date and time columns left out)
S3Line(entry) ==
    IF entry.is_dir
    THEN <<" ", " ">> \o PRE_SPACE \o entry.name \o SLASH
    ELSE <<"9", " ">> \o entry.name

\* the output for a sequence of entries: one line each, "\n" after each
RECURSIVE S3Output(_)
S3Output(entries) ==
    IF entries = <<>> THEN <<>>
    ELSE S3Line(Head(entries)) \o NEWLINE \o S3Output(Tail(entries))

S3EntryLists == UNION { [1..k -> S3Entries] : k \in 0..MaxLines }

LsInit ==
    /\ stdout \in { S3Output(entries) : entries \in S3EntryLists }
    /\ parsed_dirs = None

LsIdle ==
    /\ stdout = <<>>
    /\ parsed_dirs = None

\* the successful branch of list_s3_dirs on the output stdout
ParseS3Dirs ==
    /\ parsed_dirs = None
    /\ parsed_dirs' = Some(parse_s3_dirs(stdout))
    /\ UNCHANGED stdout
    /\ UNCHANGED <<pathVars, errVars, selVars, scanVars, rtVars, entryVars,
                   collectVars, snapVars, convVars, srVars>>
    /\ UNCHANGED restVars

(***************************************************************************)
(* select_repositories (src/shared/ui.rs).                                 *)
(***************************************************************************)
MaxOffered == 3

ConfigurationError == "ConfigurationError"

\* the native paths of the repositories offered; the same path can be
\* offered twice
OfferedPaths ==
    { <<"/", "e", "t", "c">>,
      <<"/", "e", "t", "c", "/">>,
      <<"/", "h", "o", "m", "e", "/", "t", "i", "m", "/", "d", "o", "c", "s">> }

OfferedCategories == {CATEGORY_USER_HOME, CATEGORY_DOCKER_VOLUME, CATEGORY_SYSTEM}

\* the RepositorySelectionItems offered: every one has a snapshot
\* (convert_to_selection_items); the id tells equal paths apart
OfferedLists ==
    UNION { { [i \in 1..n |->
                 [path |-> f[i].path, repo_subpath |-> <<>>, category |-> f[i].category,
                  snapshots |-> << [id |-> <<i>>, time |-> 0] >>]] :
              f \in [1..n -> [path : OfferedPaths, category : OfferedCategories]] } :
            n \in 1..MaxOffered }

\* the paths given with --path
PathOptions ==
    { <<"/", "e", "t", "c">>,
      <<"/", "e", "t", "c", "/">>,
      <<"/", "h", "o", "m", "e", "/", "t", "i", "m">>,
      <<"/", "E", "T", "C">> }

\* .iter().filter(pred).cloned().collect()
RECURSIVE FilterByPath(_, _)
FilterByPath(items, p) ==
    IF items = <<>> THEN <<>>
    ELSE (IF Head(items).path = p THEN <<Head(items)>> ELSE <<>>)
             \o FilterByPath(Tail(items), p)

RECURSIVE FilterByCategory(_, _)
FilterByCategory(items, cat) ==
    IF items = <<>> THEN <<>>
    ELSE (IF Head(items).category = cat THEN <<Head(items)>> ELSE <<>>)
             \o FilterByCategory(Tail(items), cat)

NO_REPOSITORIES_SELECTED == "No repositories selected"

\* the end of select_repositories: an empty selection is an error
selection_result(selected) ==
    IF selected = <<>>
    THEN [ok |-> FALSE, selected_repos |-> <<>>, kind |-> ConfigurationError,
          message |-> NO_REPOSITORIES_SELECTED]
    ELSE [ok |-> TRUE, selected_repos |-> selected, kind |-> "none", message |-> ""]

\* the path filter with starts_with in place of ==
select_repositories_by_path_prefix(items, p) ==
    selection_result(SelectSeq(items, LAMBDA r : StartsWith(r.path, p)))

\* select_repositories with a path given: the repositories whose path,
\* as a string, equals it
select_repositories_by_path(items, p) == selection_result(FilterByPath(items, p))

SrInit ==
    /\ backup_data \in OfferedLists
    /\ path_opt \in {None} \cup { Some(p) : p \in PathOptions }
    /\ repository_selection = None

SrIdle ==
    /\ backup_data = <<>>
    /\ path_opt = None
    /\ repository_selection = None

\* select_repositories(backup_data, path_opt); without a path the
\* operator answers the prompts: the entry of the first menu and, for
\* entries 4 and 5, the repositories ticked or the one picked
SelectRepositories ==
    /\ backup_data /= <<>>
    /\ repository_selection = None
    /\ IF path_opt /= None
       THEN repository_selection' =
                Some(select_repositories_by_path(backup_data, Unwrap(path_opt)))
       ELSE \E selection \in 0..5 :
              \E ticked \in SUBSET (1..Len(backup_data)) :
                \E single \in 1..Len(backup_data) :
                  LET selected ==
                        CASE selection = 0 -> backup_data
                          [] selection = 1 -> FilterByCategory(backup_data, CATEGORY_USER_HOME)
                          [] selection = 2 -> FilterByCategory(backup_data, CATEGORY_DOCKER_VOLUME)
                          [] selection = 3 -> FilterByCategory(backup_data, CATEGORY_SYSTEM)
                          [] selection = 4 -> PickFrom(backup_data, ticked)
                          [] selection = 5 -> <<backup_data[single]>>
                  IN  repository_selection' = Some(selection_result(selected))
    /\ UNCHANGED <<backup_data, path_opt>>
    /\ UNCHANGED <<pathVars, errVars, selVars, scanVars, rtVars, entryVars,
                   collectVars, snapVars, convVars, lsVars>>
    /\ UNCHANGED restVars

(***************************************************************************)
(* RepositoryScanner::build_s3_path (src/helpers.rs) over                  *)
(* Config::s3_base_path and Config::s3_bucket (src/config.rs).             *)
(***************************************************************************)
MaxBaseParts == 3

S3_PREFIX == <<"s", "3", ":">>
DOUBLE_SLASH == <<"/", "/">>

\* Config::s3_bucket: the text between the first and the second '/' after
\* the "//" of the repository base, None for the ConfigurationError
Config_s3_bucket(base) ==
    IF ~StartsWith(base, S3_PREFIX) THEN None
    ELSE LET s3_path == StripPrefix(base, S3_PREFIX)
             path_start == Find(s3_path, DOUBLE_SLASH)
         IN  IF path_start = 0 THEN None
             ELSE LET path_ == SubSeq(s3_path, path_start + 2, Len(s3_path))
                      slash_pos == FindChar(path_, "/")
                  IN  IF slash_pos = 0 THEN None
                      ELSE LET after_domain == SubSeq(path_, slash_pos + 1, Len(path_))
                               next_slash == FindChar(after_domain, "/")
                           IN  IF next_slash /= 0
                               THEN Some(SubSeq(after_domain, 1, next_slash - 1))
                               ELSE Some(after_domain)

\* Config::s3_base_path: the text after the second '/' after the "//" of
\* the repository base, the empty string when there is none
Config_s3_base_path(base) ==
    IF ~StartsWith(base, S3_PREFIX) THEN <<>>
    ELSE LET s3_path == StripPrefix(base, S3_PREFIX)
             path_start == Find(s3_path, DOUBLE_SLASH)
         IN  IF path_start = 0 THEN <<>>
             ELSE LET path_ == SubSeq(s3_path, path_start + 2, Len(s3_path))
                      slash_pos == FindChar(path_, "/")
                  IN  IF slash_pos = 0 THEN <<>>
                      ELSE LET after_domain == SubSeq(path_, slash_pos + 1, Len(path_))
                               next_slash == FindChar(after_domain, "/")
                           IN  IF next_slash /= 0
                               THEN SubSeq(after_domain, next_slash + 1, Len(after_domain))
                               ELSE <<>>

\* the repository bases configured: an endpoint followed by at most
\* MaxBaseParts of the parts, and a local directory
BaseEndpoint == <<"s", "3", ":", "h", "t", "t", "p", "s", ":", "/", "/", "e", "x", "a", "m", "p", "l", "e", ".", "c", "o", "m">>
BaseParts == { <<"/", "b", "u", "c", "k", "e", "t">>, <<"/", "r", "e", "s", "t", "i", "c">>, SLASH }

RECURSIVE BasesOfLen(_)
BasesOfLen(n) ==
    IF n = 0 THEN { BaseEndpoint }
    ELSE { b \o q : b \in BasesOfLen(n - 1), q \in BaseParts }

RepoBases ==
    UNION { BasesOfLen(n) : n \in 0..MaxBaseParts } \cup { <<"/", "s", "r", "v", "/", "r", "e", "s", "t", "i", "c">> }

PathHostnames == { <<"t", "i", "m", "-", "p", "c">>, <<"h", "o", "s", "t", "1">> }

S3Init ==
    /\ restic_repo_base \in RepoBases
    /\ path_hostname \in PathHostnames
    /\ path_category \in {CATEGORY_USER_HOME, CATEGORY_DOCKER_VOLUME, CATEGORY_SYSTEM}
    /\ built_path = None

S3Idle ==
    /\ restic_repo_base = <<>>
    /\ path_hostname = <<>>
    /\ path_category = <<>>
    /\ built_path = None

\* a call of build_s3_path(hostname, category); the result is always Ok
BuildS3Path ==
    /\ restic_repo_base /= <<>>
    /\ built_path = None
    /\ built_path' = Some(build_s3_path(Config_s3_base_path(restic_repo_base),
                                        path_hostname, path_category))
    /\ UNCHANGED <<restic_repo_base, path_hostname, path_category>>
    /\ UNCHANGED <<oldVars, sessionVars, storeVars, backupVars>>

(***************************************************************************)
(* The engine calls of a restore session for a selected host: the snapshot *)
(* lookup of every discovered repository (get_repo_snapshots of            *)
(* src/restore.rs, SnapshotCollector::get_snapshots of src/helpers.rs),    *)
(* then the restore of every one (restore_interactive,                     *)
(* RestoreWorkflow::restore_repositories), each with its repository URL.   *)
(***************************************************************************)
MaxSessionRepos == 2

SESSION_REPO_BASE == <<"s", "3", ":", "h", "t", "t", "p", "s", ":", "/", "/", "e", "x", "a", "m", "p", "l", "e", ".", "c", "o", "m", "/", "b", "u", "c", "k", "e", "t">>

\* Config::get_repo_url: format!("{}/{}/{}", restic_repo_base, hostname, subpath)
Config_get_repo_url(base, config_host, subpath) ==
    base \o SLASH \o config_host \o SLASH \o subpath

\* the URL of get_repo_snapshots (src/restore.rs), built from its hostname
\* argument
get_repo_snapshots_url(base, host, subpath) ==
    base \o SLASH \o host \o SLASH \o subpath

SessionHosts == { <<"t", "i", "m", "-", "p", "c">>, <<"h", "o", "s", "t", "1">>, <<"n", "a", "s">> }

SessionInit ==
    /\ session_entry \in RestoreEntries
    /\ config_hostname \in SessionHosts
    /\ selected_host \in SessionHosts
    /\ session_repos \in { [i \in 1..n |-> ScannedInfos[i].repo_subpath] :
                             n \in 1..MaxSessionRepos }
    /\ engine_calls = <<>>

SessionIdle ==
    /\ session_entry = "none"
    /\ config_hostname = <<>>
    /\ selected_host = <<>>
    /\ session_repos = <<>>
    /\ engine_calls = <<>>

\* the snapshot lookup of the next discovered repository
SessionSnapshots ==
    /\ Len(engine_calls) < Len(session_repos)
    /\ LET subpath == session_repos[Len(engine_calls) + 1]
           repo_url == IF session_entry = "restore_interactive"
                       THEN get_repo_snapshots_url(SESSION_REPO_BASE, selected_host, subpath)
                       ELSE Config_get_repo_url(SESSION_REPO_BASE, config_hostname, subpath)
       IN  engine_calls' = Append(engine_calls,
               [op |-> "snapshots", repo_subpath |-> subpath, repo_url |-> repo_url])
    /\ UNCHANGED <<session_entry, config_hostname, selected_host, session_repos>>
    /\ UNCHANGED <<oldVars, s3Vars, storeVars, backupVars>>

\* the restore of the next selected repository, after all lookups
SessionRestore ==
    /\ Len(engine_calls) >= Len(session_repos)
    /\ Len(engine_calls) < 2 * Len(session_repos)
    /\ LET subpath == session_repos[Len(engine_calls) - Len(session_repos) + 1]
           repo_url == Config_get_repo_url(SESSION_REPO_BASE, config_hostname, subpath)
       IN  engine_calls' = Append(engine_calls,
               [op |-> "restore", repo_subpath |-> subpath, repo_url |-> repo_url])
    /\ UNCHANGED <<session_entry, config_hostname, selected_host, session_repos>>
    /\ UNCHANGED <<oldVars, s3Vars, storeVars, backupVars>>


(***************************************************************************)
(* Backup followed by discovery: the object store holds, below the host,   *)
(* the engine repository of every native path backed up, at the key        *)
(* path_to_repo_subpath gives (src/backup.rs, src/shared/paths.rs), and    *)
(* scan_repositories (src/helpers.rs) reads the store through list_s3_dirs.*)
(***************************************************************************)
MaxBackedUp == 3

\* the native paths a host backs up
BackupPaths ==
    { <<"/", "h", "o", "m", "e", "/", "t", "i", "m">>,
      <<"/", "h", "o", "m", "e", "/", "t", "i", "m", "/", "d", "o", "c", "s">>,
      <<"/", "h", "o", "m", "e", "/", "t", "i", "m", "/", "m", "y", "/", "d", "e", "e", "p">>,
      <<"/", "e", "t", "c">>,
      <<"/", "e", "t", "c", "/", "n", "g", "i", "n", "x", "/", "c", "o", "n", "f">>,
      <<"/", "m", "n", "t", "/", "d", "o", "c", "k", "e", "r", "-", "d", "a", "t", "a", "/", "v", "o", "l", "u", "m", "e", "s", "/", "a", "p", "p">>,
      <<"/", "m", "n", "t", "/", "d", "o", "c", "k", "e", "r", "-", "d", "a", "t", "a", "/", "v", "o", "l", "u", "m", "e", "s", "/", "a", "p", "p", "/", "c", "o", "n", "f", "i", "g">> }

\* the directories an engine repository holds (restic init)
RepositoryLayout == {DIR_data, DIR_index, DIR_keys, DIR_snapshots, DIR_locks}

\* the prefixes of the store for one repository at the key: the key, every
\* directory above it and the directories of the repository
RepositoryDirs(host, key) ==
    LET full == host \o SLASH \o key IN
    { SubSeq(full, 1, i - 1) : i \in { j \in 1..Len(full) : full[j] = "/" } }
        \cup { full }
        \cup { full \o SLASH \o d : d \in RepositoryLayout }

\* the prefixes of the store after the backup of the paths
StoreDirs(host, paths) ==
    UNION { RepositoryDirs(host, path_to_repo_subpath(p)) : p \in paths }

\* every name a prefix of the store can hold, in the order of the listing
StoreNames ==
    << <<"a", "p", "p">>,
       <<"a", "p", "p", "_", "c", "o", "n", "f", "i", "g">>,
       <<"d", "a", "t", "a">>,
       <<"d", "o", "c", "s">>,
       <<"e", "t", "c">>,
       <<"e", "t", "c", "_", "n", "g", "i", "n", "x", "_", "c", "o", "n", "f">>,
       <<"i", "n", "d", "e", "x">>,
       <<"k", "e", "y", "s">>,
       <<"l", "o", "c", "k", "s">>,
       <<"m", "y", "_", "d", "e", "e", "p">>,
       <<"s", "n", "a", "p", "s", "h", "o", "t", "s">>,
       <<"t", "i", "m">> >>

\* list_s3_dirs on the store: the names directly below the prefix
list_store_dirs(dirs, s3_path) ==
    PickFrom(StoreNames,
             { i \in 1..Len(StoreNames) : (s3_path \o SLASH \o StoreNames[i]) \in dirs })

\* scan_user_home_repositories: "for user in users", "for subdir in subdirs"
RECURSIVE StoreUserHome(_, _, _)
StoreUserHome(dirs, user_home_path, users) ==
    IF users = <<>> THEN <<>>
    ELSE LET user == Head(users)
             subdirs == list_store_dirs(dirs, user_home_path \o SLASH \o user)
         IN  [k \in 1..Len(subdirs) |-> user_home_repo_info(user, subdirs[k])]
                \o StoreUserHome(dirs, user_home_path, Tail(users))

\* scan_docker_volume_repositories: "for volume in volumes"
RECURSIVE StoreDockerVolumes(_, _, _)
StoreDockerVolumes(dirs, docker_path, volumes) ==
    IF volumes = <<>> THEN <<>>
    ELSE LET volume == Head(volumes)
             nested == list_store_dirs(dirs, docker_path \o SLASH \o volume)
         IN  <<create_docker_volume_repo_info(volume)>>
                \o NestedInfos(volume, nested)
                \o StoreDockerVolumes(dirs, docker_path, Tail(volumes))

\* scan_repositories on the store, every listing successful
scan_store(dirs, host) ==
    LET user_home_path == build_s3_path(<<>>, host, CATEGORY_USER_HOME)
        docker_path == build_s3_path(<<>>, host, CATEGORY_DOCKER_VOLUME)
        system_path == build_s3_path(<<>>, host, CATEGORY_SYSTEM)
        paths == list_store_dirs(dirs, system_path)
    IN  StoreUserHome(dirs, user_home_path, list_store_dirs(dirs, user_home_path))
          \o StoreDockerVolumes(dirs, docker_path, list_store_dirs(dirs, docker_path))
          \o [k \in 1..Len(paths) |-> system_repo_info(paths[k])]

StoreInit ==
    /\ store_hostname \in PathHostnames
    /\ backed_up \in { S \in SUBSET BackupPaths : Cardinality(S) <= MaxBackedUp }
    /\ discovered = None

StoreIdle ==
    /\ store_hostname = <<>>
    /\ backed_up = {}
    /\ discovered = None

\* scan_repositories(hostname) after the backup of the paths
ScanStore ==
    /\ store_hostname /= <<>>
    /\ discovered = None
    /\ discovered' = Some(scan_store(StoreDirs(store_hostname, backed_up),
                                     store_hostname))
    /\ UNCHANGED <<store_hostname, backed_up>>
    /\ UNCHANGED <<oldVars, s3Vars, sessionVars, backupVars>>

(***************************************************************************)
(* A backup run: ResticCommandExecutor::init_if_needed and backup          *)
(* (src/shared/commands.rs), the loop of                                   *)
(* BackupWorkflow::execute_backup_operations                               *)
(* (src/shared/backup_workflow.rs) and the loop of run_backup              *)
(* (src/backup.rs).  run_backup calls helpers::ResticCommand, which has    *)
(* the methods of ResticCommandExecutor.                                   *)
(***************************************************************************)
MaxBackupPaths == 2

\* what a restic command gives: its standard output, or the error kind
\* from_stderr makes of its standard error
EngineOk(output) == [ok |-> TRUE, output |-> output, kind |-> "none"]
EngineErr(kind) == [ok |-> FALSE, output |-> <<>>, kind |-> kind]

\* one command given to the engine for a repository, with what it gave
EngineCommand(name, repo_url, outcome) ==
    [name |-> name, repo_url |-> repo_url, outcome |-> outcome]

CMD_snapshots == "snapshots"
CMD_init == "init"
CMD_backup == "backup"

\* check_restic_repository_exists: Ok(true), Ok(false) on
\* RepositoryNotFound, every other error returned
check_restic_repository_exists(check) ==
    IF check.ok THEN [ok |-> TRUE, exists |-> TRUE, kind |-> "none"]
    ELSE IF check.kind = RepositoryNotFound
    THEN [ok |-> TRUE, exists |-> FALSE, kind |-> "none"]
    ELSE [ok |-> FALSE, exists |-> FALSE, kind |-> check.kind]

\* init_if_needed initialising whenever the check did not succeed, as
\* init_repo_if_needed of src/utils.rs does
init_if_needed_on_any_failure(repo_url, check, init) ==
    IF check.ok
    THEN [commands |-> << EngineCommand(CMD_snapshots, repo_url, check) >>,
          ok |-> TRUE, kind |-> "none"]
    ELSE [commands |-> << EngineCommand(CMD_snapshots, repo_url, check),
                          EngineCommand(CMD_init, repo_url, init) >>,
          ok |-> init.ok, kind |-> init.kind]

\* ResticCommandExecutor::init_if_needed: the commands given to the engine
\* and the Result
init_if_needed(repo_url, check, init) ==
    LET repo_exists == check_restic_repository_exists(check) IN
    IF ~repo_exists.ok
    THEN [commands |-> << EngineCommand(CMD_snapshots, repo_url, check) >>,
          ok |-> FALSE, kind |-> repo_exists.kind]
    ELSE IF ~repo_exists.exists
    THEN [commands |-> << EngineCommand(CMD_snapshots, repo_url, check),
                          EngineCommand(CMD_init, repo_url, init) >>,
          ok |-> init.ok, kind |-> init.kind]
    ELSE [commands |-> << EngineCommand(CMD_snapshots, repo_url, check) >>,
          ok |-> TRUE, kind |-> "none"]

\* output.contains("snapshot") && output.contains("saved")
backup_output_saved(output) ==
    /\ Contains(output, <<"s", "n", "a", "p", "s", "h", "o", "t">>)
    /\ Contains(output, <<"s", "a", "v", "e", "d">>)

\* the result of the work on one path: the commands given to the engine,
\* whether the loop goes on (ok), whether the path counts as backed up,
\* and the error kind when it does not go on
PathResult(commands, ok, success, kind) ==
    [commands |-> commands, ok |-> ok, success |-> success, kind |-> kind]

\* BackupWorkflow::execute_single_backup: Ok(true), Ok(false) or Err(kind)
execute_single_backup(p, host, check, init, backup) ==
    IF ~p.exists THEN PathResult(<<>>, TRUE, FALSE, "none")
    ELSE
        LET repo_url == Config_get_repo_url(SESSION_REPO_BASE, host,
                                            path_to_repo_subpath(p.path))
            initialised == init_if_needed(repo_url, check, init)
            commands == Append(initialised.commands,
                               EngineCommand(CMD_backup, repo_url, backup))
        IN  IF ~initialised.ok
            THEN PathResult(initialised.commands, FALSE, FALSE, initialised.kind)
            ELSE IF ~backup.ok
            THEN PathResult(commands, FALSE, FALSE, backup.kind)
            ELSE PathResult(commands, TRUE, backup_output_saved(backup.output), "none")

\* the body of the loop of run_backup: only AuthenticationFailed and
\* NetworkError return from the function
run_backup_path(p, host, check, init, backup) ==
    IF ~p.exists THEN PathResult(<<>>, TRUE, FALSE, "none")
    ELSE
        LET repo_url == Config_get_repo_url(SESSION_REPO_BASE, host,
                                            path_to_repo_subpath(p.path))
            initialised == init_if_needed(repo_url, check, init)
            commands == Append(initialised.commands,
                               EngineCommand(CMD_backup, repo_url, backup))
        IN  IF ~initialised.ok
            THEN IF initialised.kind \in {AuthenticationFailed, NetworkError}
                 THEN PathResult(initialised.commands, FALSE, FALSE, initialised.kind)
                 ELSE PathResult(initialised.commands, TRUE, FALSE, "none")
            ELSE IF ~backup.ok
            THEN IF backup.kind \in {AuthenticationFailed, NetworkError}
                 THEN PathResult(commands, FALSE, FALSE, backup.kind)
                 ELSE PathResult(commands, TRUE, FALSE, "none")
            ELSE PathResult(commands, TRUE, backup_output_saved(backup.output), "none")

\* the paths of a run, with what path.exists() answers for each
BackupRunPaths ==
    { [path |-> <<"/", "e", "t", "c">>, exists |-> TRUE],
      [path |-> <<"/", "h", "o", "m", "e", "/", "t", "i", "m", "/", "d", "o", "c", "s">>,
       exists |-> TRUE],
      [path |-> <<"/", "m", "n", "t", "/", "u", "s", "b">>, exists |-> FALSE] }

\* the standard output of a backup command that ended with status 0
BackupOutputs ==
    { <<"s", "n", "a", "p", "s", "h", "o", "t", " ", "a", "b", "1", "2", " ", "s", "a", "v", "e", "d">>,
      <<"s", "c", "a", "n", " ", "f", "i", "n", "i", "s", "h", "e", "d">> }

CommandOutcomes == {EngineOk(<<>>)} \cup { EngineErr(k) : k \in ErrorKinds }

BackupOutcomes ==
    { EngineOk(o) : o \in BackupOutputs } \cup { EngineErr(k) : k \in ErrorKinds }

BackupEntries == {"backup_workflow", "run_backup"}

BackupInit ==
    /\ backup_entry \in BackupEntries
    /\ backup_hostname = <<"t", "i", "m", "-", "p", "c">>
    /\ all_paths \in UNION { [1..n -> BackupRunPaths] : n \in 1..MaxBackupPaths }
    /\ backup_log = <<>>
    /\ success_count = 0
    /\ skip_count = 0
    /\ backup_result = None
    /\ pcB = "backup"

BackupIdle ==
    /\ backup_entry = "none"
    /\ backup_hostname = <<>>
    /\ all_paths = <<>>
    /\ backup_log = <<>>
    /\ success_count = 0
    /\ skip_count = 0
    /\ backup_result = None
    /\ pcB = "idle"

\* what one iteration of a backup loop does with the result for its path
BackupLoopStep(result) ==
    LET last == Len(backup_log) + 1 = Len(all_paths) IN
    /\ backup_log' = Append(backup_log, result)
    /\ IF ~result.ok
       THEN /\ backup_result' = Some(result.kind)
            /\ pcB' = "done"
            /\ UNCHANGED <<success_count, skip_count>>
       ELSE /\ success_count' = IF result.success THEN success_count + 1
                                ELSE success_count
            /\ skip_count' = IF result.success THEN skip_count
                             ELSE skip_count + 1
            /\ backup_result' = IF last THEN Some("Ok") ELSE None
            /\ pcB' = IF last THEN "done" ELSE "backup"
    /\ UNCHANGED <<backup_entry, backup_hostname, all_paths>>
    /\ UNCHANGED <<oldVars, s3Vars, sessionVars, storeVars>>

\* one iteration of the loop of BackupWorkflow::execute_backup_operations:
\* "let success = self.execute_single_backup(path, hostname).await?"
ExecuteBackupOperations ==
    /\ pcB = "backup"
    /\ backup_entry = "backup_workflow"
    /\ Len(backup_log) < Len(all_paths)
    /\ \E check \in CommandOutcomes, init \in CommandOutcomes, backup \in BackupOutcomes :
          BackupLoopStep(execute_single_backup(all_paths[Len(backup_log) + 1],
                                               backup_hostname, check, init, backup))

\* one iteration of the loop of run_backup
RunBackup ==
    /\ pcB = "backup"
    /\ backup_entry = "run_backup"
    /\ Len(backup_log) < Len(all_paths)
    /\ \E check \in CommandOutcomes, init \in CommandOutcomes, backup \in BackupOutcomes :
          BackupLoopStep(run_backup_path(all_paths[Len(backup_log) + 1],
                                         backup_hostname, check, init, backup))

RestIdle == S3Idle /\ SessionIdle /\ StoreIdle /\ BackupIdle

(***************************************************************************)
(* Specifications.                                                         *)
(***************************************************************************)

\* the path functions
Init ==
    /\ PathInit /\ ErrIdle /\ SelIdle /\ ScanIdle /\ EntryIdle /\ RoundTripIdle
    /\ CollectIdle /\ SnapIdle /\ ConvIdle /\ LsIdle /\ SrIdle
    /\ RestIdle

Next == PathToRepoSubpath \/ Category \/ S3ToNativePath \/ ScanNativePath

Spec == Init /\ [][Next]_vars

\* the stderr classifier
InitErr ==
    /\ ErrInit /\ PathIdle /\ SelIdle /\ ScanIdle /\ EntryIdle /\ RoundTripIdle
    /\ CollectIdle /\ SnapIdle /\ ConvIdle /\ LsIdle /\ SrIdle
    /\ RestIdle

NextErr == FromStderr

SpecErr == InitErr /\ [][NextErr]_vars

\* a restore session
InitRestore ==
    /\ SelInit /\ PathIdle /\ ErrIdle /\ ScanIdle /\ EntryInit /\ RoundTripIdle
    /\ CollectIdle /\ SnapIdle /\ ConvIdle /\ LsIdle /\ SrIdle
    /\ RestIdle

NextRestore == SelectTimestamp \/ RestoreRepository \/ RestoreInteractiveRepository

SpecRestore == InitRestore /\ [][NextRestore]_vars

\* a scan of the repositories of one host
InitScan ==
    /\ ScanInit /\ PathIdle /\ ErrIdle /\ SelIdle /\ EntryIdle /\ RoundTripIdle
    /\ CollectIdle /\ SnapIdle /\ ConvIdle /\ LsIdle /\ SrIdle
    /\ RestIdle

NextScan ==
    \/ ListUserHome
    \/ ListUserDirs
    \/ ListDockerVolumes
    \/ ListVolumeDirs
    \/ ListSystem

SpecScan == InitScan /\ [][NextScan]_vars

\* the snapshot collection of a restore
InitCollect ==
    /\ CollectInit /\ PathIdle /\ ErrIdle /\ SelIdle /\ ScanIdle /\ RoundTripIdle
    /\ EntryIdle /\ SnapIdle /\ ConvIdle /\ LsIdle /\ SrIdle
    /\ RestIdle

NextCollect == GetRepoSnapshots \/ CollectNothing

SpecCollect == InitCollect /\ [][NextCollect]_vars

\* the snapshots of one repository
InitSnapshots ==
    /\ SnapInit /\ PathIdle /\ ErrIdle /\ SelIdle /\ ScanIdle /\ RoundTripIdle
    /\ EntryIdle /\ CollectIdle /\ ConvIdle /\ LsIdle /\ SrIdle
    /\ RestIdle

NextSnapshots == GetSnapshots \/ ListBackupsRepository

SpecSnapshots == InitSnapshots /\ [][NextSnapshots]_vars

\* the conversion of repository data for the selection
InitConvert ==
    /\ ConvInit /\ PathIdle /\ ErrIdle /\ SelIdle /\ ScanIdle /\ RoundTripIdle
    /\ EntryIdle /\ CollectIdle /\ SnapIdle /\ LsIdle /\ SrIdle
    /\ RestIdle

NextConvert == ConvertToSelectionItems

SpecConvert == InitConvert /\ [][NextConvert]_vars

\* the parser of the listing
InitListing ==
    /\ LsInit /\ PathIdle /\ ErrIdle /\ SelIdle /\ ScanIdle /\ RoundTripIdle
    /\ EntryIdle /\ CollectIdle /\ SnapIdle /\ ConvIdle /\ SrIdle
    /\ RestIdle

NextListing == ParseS3Dirs

SpecListing == InitListing /\ [][NextListing]_vars

\* the repository selection
InitSelect ==
    /\ SrInit /\ PathIdle /\ ErrIdle /\ SelIdle /\ ScanIdle /\ RoundTripIdle
    /\ EntryIdle /\ CollectIdle /\ SnapIdle /\ ConvIdle /\ LsIdle
    /\ RestIdle

NextSelect == SelectRepositories

SpecSelect == InitSelect /\ [][NextSelect]_vars

\* build_s3_path
\* every area that has a specification of its own above at rest
OldIdle ==
    /\ PathIdle /\ ErrIdle /\ SelIdle /\ ScanIdle /\ RoundTripIdle /\ EntryIdle
    /\ CollectIdle /\ SnapIdle /\ ConvIdle /\ LsIdle /\ SrIdle

InitS3Path == S3Init /\ OldIdle /\ SessionIdle /\ StoreIdle /\ BackupIdle

NextS3Path == BuildS3Path

SpecS3Path == InitS3Path /\ [][NextS3Path]_vars

\* the engine calls of a restore session
InitSession == SessionInit /\ OldIdle /\ S3Idle /\ StoreIdle /\ BackupIdle

NextSession == SessionSnapshots \/ SessionRestore

SpecSession == InitSession /\ [][NextSession]_vars

\* backup followed by discovery
InitStore == StoreInit /\ OldIdle /\ S3Idle /\ SessionIdle /\ BackupIdle

NextStore == ScanStore

SpecStore == InitStore /\ [][NextStore]_vars

InitBackup == BackupInit /\ OldIdle /\ S3Idle /\ SessionIdle /\ StoreIdle

NextBackup == ExecuteBackupOperations \/ RunBackup

SpecBackup == InitBackup /\ [][NextBackup]_vars

(***************************************************************************)
(* Claims about PathMapper and BackupRepo::category, checked under Spec.   *)
(***************************************************************************)

\* the text before the first '/' of a repository key
FirstSegment(s) == Split(s, "/")[1]

\* C1: for every native path p, the category named by the first segment of
\* path_to_repo_subpath(p) equals BackupRepo::category() computed on p.
C1_EncodeCategoryAgrees ==
    (IsSome(repo_subpath) /\ IsSome(category))
        => FirstSegment(Unwrap(repo_subpath)) = Unwrap(category)

\* C2: category() is user_home iff p starts with "/home/" and has at least
\* one more character; docker_volume iff p starts with
\* "/mnt/docker-data/volumes/" and has at least one more character; system
\* for every other p.
C2_CategoryRule ==
    IsSome(category) =>
        LET underHome ==
                /\ StartsWith(path, HOME_DIR_WITH_SLASH)
                /\ Len(path) > Len(HOME_DIR_WITH_SLASH)
            underVolumes ==
                /\ StartsWith(path, DOCKER_VOLUMES_DIR_WITH_SLASH)
                /\ Len(path) > Len(DOCKER_VOLUMES_DIR_WITH_SLASH)
        IN  /\ (Unwrap(category) = CATEGORY_USER_HOME) <=> underHome
            /\ (Unwrap(category) = CATEGORY_DOCKER_VOLUME) <=> underVolumes
            /\ (Unwrap(category) = CATEGORY_SYSTEM) <=> (~underHome /\ ~underVolumes)

\* C2 witness: category() has been computed on the bare "/home/" and on no
\* other root
C2_Witness ==
    /\ IsSome(category)
    /\ path = HOME_DIR_WITH_SLASH
    /\ Unwrap(category) = CATEGORY_SYSTEM

\* the key the three rules of the claim give for a path, None where the
\* claim names no rule (relative paths, several leading slashes, the bare
\* volumes root with a trailing slash)
C3_Expected(p) ==
    IF StartsWith(p, HOME_DIR_WITH_SLASH) THEN
        LET segs == Split(StripPrefix(p, HOME_DIR_WITH_SLASH), "/")
        IN  IF Len(segs) = 1
            THEN Some(CATEGORY_USER_HOME \o SLASH \o segs[1])
            ELSE Some(CATEGORY_USER_HOME \o SLASH \o segs[1] \o SLASH
                        \o Join(Tail(segs), UNDERSCORE))
    ELSE IF StartsWith(p, DOCKER_VOLUMES_DIR_WITH_SLASH) THEN
        LET rest == StripPrefix(p, DOCKER_VOLUMES_DIR_WITH_SLASH)
        IN  IF rest = <<>> THEN None
            ELSE Some(CATEGORY_DOCKER_VOLUME \o SLASH
                        \o Join(Split(rest, "/"), UNDERSCORE))
    ELSE IF p = <<>> \/ p = SLASH THEN Some(CATEGORY_SYSTEM)
    ELSE IF Head(p) = "/" /\ p[2] /= "/"
    THEN Some(CATEGORY_SYSTEM \o SLASH \o Join(Split(Tail(p), "/"), UNDERSCORE))
    ELSE None

\* C3: path_to_repo_subpath follows the three rules in order (user home,
\* docker volume, system), joins the segments with '_' and keeps every
\* other character.
C3_EncodeRules ==
    (IsSome(repo_subpath) /\ IsSome(C3_Expected(path)))
        => Unwrap(repo_subpath) = Unwrap(C3_Expected(path))

\* C3 witness: a path with two segments below the user directory was encoded
C3_Witness ==
    /\ IsSome(repo_subpath)
    /\ path = <<"/", "h", "o", "m", "e", "/", "t", "i", "m",
                "/", "m", "y", "/", "a", ".", "b">>
    /\ Unwrap(repo_subpath) =
         <<"u", "s", "e", "r", "_", "h", "o", "m", "e", "/", "t", "i", "m",
           "/", "m", "y", "_", "a", ".", "b">>

\* C4: s3_to_native_path replaces every '_' with '/' when the segment holds
\* two or more underscores and returns it unchanged otherwise; every other
\* character is kept.
C4_DecodeRule ==
    IsSome(native) =>
        LET out == Unwrap(native) IN
        /\ Len(out) = Len(path)
        /\ \A i \in 1..Len(path) :
              out[i] = IF CountChar(path, "_") >= 2 /\ path[i] = "_"
                       THEN "/" ELSE path[i]

\* C4 witness: a segment with leading spaces and two underscores was decoded
C4_Witness ==
    /\ IsSome(native)
    /\ CountChar(path, "_") = 2
    /\ Head(path) = " "
    /\ Unwrap(native) /= path


(***************************************************************************)
(* Claims about BackupServiceError::from_stderr, checked under SpecErr.    *)
(***************************************************************************)
C7_AuthTokens ==
    { TOK_access_denied, TOK_invalid_credentials, TOK_authorization,
      TOK_forbidden, TOK_access_key, TOK_secret_key }

C7_NetworkTokens ==
    { TOK_network, TOK_connection, TOK_timeout, TOK_unreachable, TOK_dns }

C7_HasAny(text, tokens) == \E t \in tokens : Contains(ToLowercase(text), t)

\* C7: from_stderr classifies case-insensitively and in strict priority
\* order: credential tokens, then connectivity tokens, then "repository"
\* together with "not found", otherwise CommandFailed carrying the original
\* text; every input yields exactly one of the four kinds.
C7_StderrPriority ==
    IsSome(err) =>
        LET e == Unwrap(err)
            auth == C7_HasAny(stderr, C7_AuthTokens)
            net == C7_HasAny(stderr, C7_NetworkTokens)
            missing == /\ C7_HasAny(stderr, {TOK_repository})
                       /\ C7_HasAny(stderr, {TOK_not_found})
        IN  /\ e.kind \in ErrorKinds
            /\ (e.kind = AuthenticationFailed) <=> auth
            /\ (e.kind = NetworkError) <=> (~auth /\ net)
            /\ (e.kind = RepositoryNotFound) <=> (~auth /\ ~net /\ missing)
            /\ (e.kind = CommandFailed) <=> (~auth /\ ~net /\ ~missing)
            /\ (e.kind = CommandFailed) => e.arg = stderr

\* C7 witness: text with a connectivity token in mixed case followed by a
\* credential token in upper case was classified as AuthenticationFailed
C7_Witness ==
    /\ IsSome(err)
    /\ stderr = <<"C", "o", "n", "n", "e", "c", "t", "i", "o", "n">>
                  \o <<"A", "U", "T", "H", "O", "R", "I", "Z", "A", "T", "I", "O", "N">>
    /\ Unwrap(err).kind = AuthenticationFailed

(***************************************************************************)
(* Claims about best-snapshot selection and the time windows, checked      *)
(* under SpecRestore.                                                      *)
(***************************************************************************)

\* the positions of the snapshots of a repository inside [ts, ts + 5min)
C5_InWindow(snapshots, ts) ==
    { k \in 1..Len(snapshots) :
        snapshots[k].time >= ts /\ snapshots[k].time < ts + Sec(300) }

\* the positions of the snapshots of a repository before ts
C5_Before(snapshots, ts) ==
    { k \in 1..Len(snapshots) : snapshots[k].time < ts }

\* chosen is a snapshot at one of the positions and no position has a later one
C5_IsLatestOf(chosen, snapshots, positions) ==
    /\ chosen /= None
    /\ \E k \in positions : snapshots[k] = Unwrap(chosen)
    /\ \A k \in positions : snapshots[k].time <= Unwrap(chosen).time

\* C5: for one repository and target T: if a snapshot has T <= time < T+5min
\* the latest of those is chosen; otherwise the latest snapshot with
\* time < T; if there is none, nothing is chosen.  A snapshot with
\* time >= T+5min is never chosen.
C5_BestSnapshot ==
    \A i \in 1..Len(restore_log) :
        LET snapshots == selected_repos[i].snapshots
            ts == Unwrap(selected_timestamp)
            chosen == restore_log[i].chosen
            inside == C5_InWindow(snapshots, ts)
            before == C5_Before(snapshots, ts)
        IN  /\ inside /= {} => C5_IsLatestOf(chosen, snapshots, inside)
            /\ (inside = {} /\ before /= {}) => C5_IsLatestOf(chosen, snapshots, before)
            /\ (inside = {} /\ before = {}) => chosen = None
            /\ chosen /= None => Unwrap(chosen).time < ts + Sec(300)
            /\ (inside \cup before) /= {} => chosen /= None

\* C5 witness: a repository with a snapshot before T and one at T+5min or
\* later, and none in the window, fell back to the one before T
C5_Witness ==
    \E i \in 1..Len(restore_log) :
        LET snapshots == selected_repos[i].snapshots
            ts == Unwrap(selected_timestamp)
        IN  /\ C5_InWindow(snapshots, ts) = {}
            /\ \E k \in 1..Len(snapshots) : snapshots[k].time >= ts + Sec(300)
            /\ restore_log[i].chosen /= None
            /\ Unwrap(restore_log[i].chosen).time < ts

\* floor(ts, 300s): the largest multiple of 300 seconds not after ts
C6_Floor(ts) == Sec(WINDOW_SECS) * (ts \div Sec(WINDOW_SECS))

\* the instants of all snapshots of the selected repositories
C6_AllTimes ==
    UNION { { selected_repos[r].snapshots[k].time :
                k \in 1..Len(selected_repos[r].snapshots) } :
            r \in 1..Len(selected_repos) }

\* C6: the windows built by select_timestamp are exactly the distinct
\* values floor(ts, 300s) over all snapshot timestamps, each once, newest
\* first.
C6_WindowsAreFloors ==
    (pcR /= "select_timestamp" /\ timestamp_opt = None) =>
        /\ { window_times[i] : i \in 1..Len(window_times) }
              = { C6_Floor(t) : t \in C6_AllTimes }
        /\ \A i \in 1..Len(window_times) - 1 : window_times[i] > window_times[i + 1]

\* the same statement for sessions in which no snapshot is older than the
\* Unix epoch
C6_WindowsAreFloorsSinceEpoch ==
    (pcR /= "select_timestamp" /\ timestamp_opt = None
        /\ \A t \in C6_AllTimes : t >= 0) =>
        /\ { window_times[i] : i \in 1..Len(window_times) }
              = { C6_Floor(t) : t \in C6_AllTimes }
        /\ \A i \in 1..Len(window_times) - 1 : window_times[i] > window_times[i + 1]

(***************************************************************************)
(* Claims about RepositoryScanner::scan_repositories, checked under        *)
(* SpecScan.                                                               *)
(***************************************************************************)
FatalKinds == {AuthenticationFailed, NetworkError}

\* the path of the prefix of a category for the scanned host
CategoryPrefix(cat) == build_s3_path(s3_base_path, hostname, cat)

\* the positions in the log of the listings that failed with a fatal kind
FatalListings ==
    { i \in 1..Len(listings) :
        ~listings[i].outcome.ok /\ listings[i].outcome.kind \in FatalKinds }

\* C8: if any listing of the scan fails with AuthenticationFailed or
\* NetworkError, scan_repositories returns that error and no repository
\* list.
C8_FatalListingAborts ==
    (pcS = "done" /\ FatalListings /= {}) =>
        LET first == CHOOSE i \in FatalListings : \A j \in FatalListings : i <= j
        IN  /\ ~Unwrap(scan_result).ok
            /\ Unwrap(scan_result).kind = listings[first].outcome.kind
            /\ Unwrap(scan_result).repos = <<>>

\* the listing of a prefix failed with a kind that is not fatal
NonFatalFailed(s3_path) ==
    \E i \in 1..Len(listings) :
        /\ listings[i].s3_path = s3_path
        /\ ~listings[i].outcome.ok
        /\ listings[i].outcome.kind \notin FatalKinds

\* the names a prefix listed; none when its listing failed or was not made
ListedAt(s3_path) ==
    IF \E i \in 1..Len(listings) :
          listings[i].s3_path = s3_path /\ listings[i].outcome.ok
    THEN (CHOOSE e \in { listings[i] : i \in 1..Len(listings) } :
              e.s3_path = s3_path /\ e.outcome.ok).outcome.dirs
    ELSE <<>>

\* what the user-home branch returns for the listings of the log
RECURSIVE ExpectedUserHome(_)
ExpectedUserHome(users) ==
    IF users = <<>> THEN <<>>
    ELSE LET user == Head(users)
             leaves == ListedAt(CategoryPrefix(CATEGORY_USER_HOME) \o SLASH \o user)
         IN  [k \in 1..Len(leaves) |-> user_home_repo_info(user, leaves[k])]
                \o ExpectedUserHome(Tail(users))

\* what the docker-volume branch returns for the listings of the log
RECURSIVE ExpectedDockerVolume(_)
ExpectedDockerVolume(volumes) ==
    IF volumes = <<>> THEN <<>>
    ELSE LET volume == Head(volumes)
             nested == ListedAt(CategoryPrefix(CATEGORY_DOCKER_VOLUME) \o SLASH \o volume)
             kept == SelectSeq(nested, LAMBDA n : ~is_restic_internal_dir(n))
         IN  <<create_docker_volume_repo_info(volume)>>
                \o [k \in 1..Len(kept) |-> nested_repo_info(volume, kept[k])]
                \o ExpectedDockerVolume(Tail(volumes))

\* what the system branch returns for the listings of the log
ExpectedSystem ==
    LET leaves == ListedAt(CategoryPrefix(CATEGORY_SYSTEM))
    IN  [k \in 1..Len(leaves) |-> system_repo_info(leaves[k])]

\* what the branch of a category returns for the listings of the log
ExpectedBranch(cat) ==
    IF cat = CATEGORY_USER_HOME
    THEN ExpectedUserHome(ListedAt(CategoryPrefix(CATEGORY_USER_HOME)))
    ELSE IF cat = CATEGORY_DOCKER_VOLUME
    THEN ExpectedDockerVolume(ListedAt(CategoryPrefix(CATEGORY_DOCKER_VOLUME)))
    ELSE ExpectedSystem

Categories == {CATEGORY_USER_HOME, CATEGORY_DOCKER_VOLUME, CATEGORY_SYSTEM}

\* the repositories of a list filed under a category
OfCategory(list, cat) == SelectSeq(list, LAMBDA r : r.category = cat)

\* C9: if the listing of one category prefix fails with an error that is
\* not AuthenticationFailed or NetworkError, that branch contributes zero
\* repositories, scan_repositories still returns Ok, and the other two
\* branches contribute exactly what their own listings give.
C9_NonFatalBranchIsEmpty ==
    pcS = "done" =>
        \A cat \in Categories :
            NonFatalFailed(CategoryPrefix(cat)) =>
                /\ Unwrap(scan_result).ok
                /\ OfCategory(Unwrap(scan_result).repos, cat) = <<>>
                /\ \A other \in Categories \ {cat} :
                      OfCategory(Unwrap(scan_result).repos, other) = ExpectedBranch(other)
                /\ Len(Unwrap(scan_result).repos) =
                      Len(ExpectedBranch(CATEGORY_USER_HOME))
                        + Len(ExpectedBranch(CATEGORY_DOCKER_VOLUME))
                        + Len(ExpectedBranch(CATEGORY_SYSTEM))

\* C9 witness: the docker_volume prefix failed with RepositoryNotFound and
\* the scan returned repositories of both other branches
C9_Witness ==
    /\ pcS = "done"
    /\ \E i \in 1..Len(listings) :
          /\ listings[i].s3_path = CategoryPrefix(CATEGORY_DOCKER_VOLUME)
          /\ listings[i].outcome = ListErr(RepositoryNotFound)
    /\ Unwrap(scan_result).ok
    /\ OfCategory(Unwrap(scan_result).repos, CATEGORY_USER_HOME) /= <<>>
    /\ OfCategory(Unwrap(scan_result).repos, CATEGORY_SYSTEM) /= <<>>

\* the number of repositories of a list with a given key
CountKey(list, key) ==
    Cardinality({ i \in 1..Len(list) : list[i].repo_subpath = key })

\* the reserved directory names of the engine
C10_Reserved == {DIR_data, DIR_index, DIR_keys, DIR_snapshots, DIR_locks}

\* C10: every name v listed under <host>/docker_volume yields exactly one
\* top-level RepositoryInfo, and every name n listed inside v yields exactly
\* one nested RepositoryInfo iff n is not exactly a reserved name; nothing
\* else is filed under docker_volume.
C10_VolumeDiscovery ==
    pcS = "done" =>
        LET found == Unwrap(scan_result).repos
            volumes == ListedAt(CategoryPrefix(CATEGORY_DOCKER_VOLUME))
            Inside(v) == ListedAt(CategoryPrefix(CATEGORY_DOCKER_VOLUME) \o SLASH \o v)
            TopKey(v) == CATEGORY_DOCKER_VOLUME \o SLASH \o v
            NestedKey(v, n) == CATEGORY_DOCKER_VOLUME \o SLASH \o v \o SLASH \o n
        IN  /\ \A a \in 1..Len(volumes) :
                LET v == volumes[a] IN
                /\ CountKey(found, TopKey(v)) = 1
                /\ \E i \in 1..Len(found) :
                      found[i] = [native_path |-> DOCKER_VOLUMES_DIR \o SLASH \o v,
                                  repo_subpath |-> TopKey(v),
                                  category |-> CATEGORY_DOCKER_VOLUME]
                /\ \A b \in 1..Len(Inside(v)) :
                      LET n == Inside(v)[b] IN
                      IF n \in C10_Reserved
                      THEN CountKey(found, NestedKey(v, n)) = 0
                      ELSE /\ CountKey(found, NestedKey(v, n)) = 1
                           /\ \E i \in 1..Len(found) :
                                 found[i] =
                                   [native_path |-> DOCKER_VOLUMES_DIR \o SLASH \o v
                                                       \o SLASH \o n,
                                    repo_subpath |-> NestedKey(v, n),
                                    category |-> CATEGORY_DOCKER_VOLUME]
            /\ \A i \in 1..Len(found) :
                  found[i].category = CATEGORY_DOCKER_VOLUME =>
                      \E a \in 1..Len(volumes) :
                          \/ found[i].repo_subpath = TopKey(volumes[a])
                          \/ \E b \in 1..Len(Inside(volumes[a])) :
                                found[i].repo_subpath =
                                    NestedKey(volumes[a], Inside(volumes[a])[b])

\* C10 witness: a volume whose listing holds the reserved name "data" and
\* the name "Data" got its top-level RepositoryInfo and one nested
\* RepositoryInfo, for "Data"; a second volume whose listing failed got its
\* top-level RepositoryInfo only
C10_Witness ==
    /\ pcS = "done"
    /\ Len(ListedAt(CategoryPrefix(CATEGORY_DOCKER_VOLUME))) = 2
    /\ \E i, j \in 1..Len(listings) :
          /\ listings[i].outcome = ListOk(<<DIR_data, <<"D", "a", "t", "a">>>>)
          /\ StartsWith(listings[j].s3_path,
                        CategoryPrefix(CATEGORY_DOCKER_VOLUME) \o SLASH)
          /\ ~listings[j].outcome.ok
    /\ Len(OfCategory(Unwrap(scan_result).repos, CATEGORY_DOCKER_VOLUME)) = 3

(***************************************************************************)
(* Claims about the snapshot collection of collect_backup_data, checked    *)
(* under SpecCollect.                                                      *)
(***************************************************************************)

\* the positions of the lookups that failed with one of the kinds
FailedLookups(kinds) ==
    { i \in 1..Len(lookups) : ~lookups[i].ok /\ lookups[i].kind \in kinds }

\* C11: if the snapshot lookup of a repository fails with
\* AuthenticationFailed or NetworkError, the collection aborts at that
\* repository, returns that failure and returns no list of repositories.
C11_FatalLookupAborts ==
    \A i \in FailedLookups(FatalKinds) :
        /\ i = Len(lookups)
        /\ pcC = "done"
        /\ ~Unwrap(collect_result).ok
        /\ Unwrap(collect_result).kind = lookups[i].kind
        /\ Unwrap(collect_result).repos = <<>>

\* the repository of position i has a usable snapshot
C12_HasSnapshot(i) ==
    /\ lookups[i].ok
    /\ \E k \in 1..Len(lookups[i].records) :
          LET s == lookups[i].records[k]
          IN  /\ s.short_id /= None
              /\ s.time /= None
              /\ Unwrap(s.time) \in {"1970-01-01T00:00:00Z", "1970-01-01T00:05:00Z"}

\* the keys of the repositories looked up that have a usable snapshot, in
\* the order of the scan
RECURSIVE C12_ExpectedKeys(_)
C12_ExpectedKeys(n) ==
    IF n = 0 THEN <<>>
    ELSE C12_ExpectedKeys(n - 1)
            \o (IF C12_HasSnapshot(n) THEN <<repo_infos[n].repo_subpath>> ELSE <<>>)

\* C12: if the lookup of one repository fails with RepositoryNotFound or
\* CommandFailed, that repository is omitted, every later repository is
\* still looked up (the collection stops early only at a lookup that failed
\* with AuthenticationFailed or NetworkError), and an Ok result holds every
\* other repository that has at least one snapshot.
C12_NonFatalLookupIsSkipped ==
    \A i \in FailedLookups({RepositoryNotFound, CommandFailed}) :
        /\ \A k \in 1..Len(collected_repos) :
              collected_repos[k].repo_subpath /= repo_infos[i].repo_subpath
        /\ (pcC = "done" /\ Len(lookups) < Len(repo_infos))
              => Len(lookups) \in FailedLookups(FatalKinds)
        /\ (pcC = "done" /\ Unwrap(collect_result).ok) =>
              /\ Len(lookups) = Len(repo_infos)
              /\ [k \in 1..Len(Unwrap(collect_result).repos) |->
                     Unwrap(collect_result).repos[k].repo_subpath]
                    = C12_ExpectedKeys(Len(repo_infos))
              /\ \A k \in 1..Len(Unwrap(collect_result).repos) :
                    Unwrap(collect_result).repos[k].snapshots /= <<>>

\* C12 witness: the lookup of the first repository failed with
\* RepositoryNotFound, the second was looked up and is the result
C12_Witness ==
    /\ pcC = "done"
    /\ Len(lookups) = 2
    /\ 1 \in FailedLookups({RepositoryNotFound})
    /\ Unwrap(collect_result).ok
    /\ Len(Unwrap(collect_result).repos) = 1
    /\ Unwrap(collect_result).repos[1].repo_subpath = repo_infos[2].repo_subpath

(***************************************************************************)
(* Claims about the restore batch, checked under SpecRestore for both      *)
(* restore loops.                                                          *)
(***************************************************************************)

\* the positions of the repositories whose restore command failed with
\* one of the kinds
FailedRestores(kinds) ==
    { i \in 1..Len(restore_log) : restore_log[i].outcome \in kinds }

\* C13: if the restore command of one repository fails with
\* RepositoryNotFound or CommandFailed, that repository is counted as
\* skipped, the remaining repositories are still attempted and the batch
\* ends with the restored/skipped summary instead of an error.
C13_NonFatalRestoreIsSkipped ==
    \A i \in FailedRestores({RepositoryNotFound, CommandFailed}) :
        /\ skipped_count >= 1
        /\ restored_count + skipped_count = Len(restore_log)
              \/ Len(restore_log) \in FailedRestores(FatalKinds)
        /\ pcR = "done" =>
              \/ restore_result = "Ok" /\ Len(restore_log) = Len(selected_repos)
              \/ Len(restore_log) \in FailedRestores(FatalKinds)

\* C14: if the restore command of a repository fails with
\* AuthenticationFailed or NetworkError, no later repository is restored
\* and the batch returns that error instead of the summary and Ok.
C14_FatalRestoreAborts ==
    \A i \in FailedRestores(FatalKinds) :
        /\ i = Len(restore_log)
        /\ pcR = "done"
        /\ restore_result = restore_log[i].outcome

\* C14 witness: restore_interactive lost the connection on the first of
\* two repositories and stopped there
C14_Witness ==
    /\ restore_entry = "restore_interactive"
    /\ Len(selected_repos) = 2
    /\ Len(restore_log) = 1
    /\ restore_log[1].outcome = NetworkError
    /\ pcR = "done"
    /\ restore_result = NetworkError

\* C15: a batch that ends with no repository restored and at least one
\* skipped is reported to its caller as a failure.
C15_NothingRestoredIsFailure ==
    (pcR = "done" /\ restored_count = 0 /\ skipped_count >= 1)
        => restore_result /= "Ok"

(***************************************************************************)
(* Claims about SnapshotCollector::get_snapshots, checked under            *)
(* SpecSnapshots.                                                          *)
(***************************************************************************)

\* an engine record that has a "time" that parses and a "short_id"
C16_Usable(s) ==
    /\ s.time /= None
    /\ parse_DateTime(Unwrap(s.time)) /= None
    /\ s.short_id /= None

\* the records of an engine output that ran
C16_Records(output) ==
    IF output.json = None THEN <<>> ELSE Unwrap(output.json)

\* C16: get_snapshots drops every engine record whose "time" is missing
\* or does not parse or whose "short_id" is missing, keeps every other
\* record in the engine's order with the requested native path, and never
\* fails because of a malformed record; an empty listing gives an empty
\* list, count 0 and Ok.
C16_MalformedRecordsDropped ==
    snapshot_result /= None =>
        LET output == Unwrap(engine_records)
            result == Unwrap(snapshot_result)
            kept   == SelectSeq(C16_Records(output), C16_Usable)
        IN  /\ result.ok <=> output.ok
            /\ output.ok =>
                  /\ Len(result.snapshot_infos) = Len(kept)
                  /\ \A k \in 1..Len(kept) :
                        /\ result.snapshot_infos[k].time =
                              Unwrap(parse_DateTime(Unwrap(kept[k].time)))
                        /\ result.snapshot_infos[k].id = Unwrap(kept[k].short_id)
                        /\ result.snapshot_infos[k].path = requested_path
                  /\ C16_Records(output) = <<>> =>
                        result.count = 0 /\ result.snapshot_infos = <<>>

\* C16 witness: of two records the first has a time that does not parse
\* and is dropped, the second is kept
C16_Witness ==
    /\ snapshot_result /= None
    /\ Unwrap(engine_records).ok
    /\ Len(C16_Records(Unwrap(engine_records))) = 2
    /\ ~C16_Usable(C16_Records(Unwrap(engine_records))[1])
    /\ C16_Usable(C16_Records(Unwrap(engine_records))[2])
    /\ Unwrap(snapshot_result).ok
    /\ Len(Unwrap(snapshot_result).snapshot_infos) = 1

(***************************************************************************)
(* Claims about convert_to_selection_items, checked under SpecConvert.     *)
(***************************************************************************)

\* a RepositoryData with at least one snapshot
C17_HasSnapshots(d) == Len(d.snapshots) >= 1

\* C17: convert_to_selection_items returns exactly the input repositories
\* with at least one snapshot, in input order, each with its path,
\* repo_subpath, category and snapshot ids and times unchanged; no item
\* without snapshots is handed on to selection and restore.
C17_OnlyRepositoriesWithSnapshots ==
    selection_items /= None =>
        LET items == Unwrap(selection_items)
            kept  == SelectSeq(repo_data, C17_HasSnapshots)
        IN  /\ Len(items) = Len(kept)
            /\ \A k \in 1..Len(kept) :
                  /\ items[k].path = kept[k].info.native_path
                  /\ items[k].repo_subpath = kept[k].info.repo_subpath
                  /\ items[k].category = kept[k].info.category
                  /\ Len(items[k].snapshots) = Len(kept[k].snapshots)
                  /\ \A n \in 1..Len(kept[k].snapshots) :
                        /\ items[k].snapshots[n].id = kept[k].snapshots[n].id
                        /\ items[k].snapshots[n].time = kept[k].snapshots[n].time
            /\ \A k \in 1..Len(items) : items[k].snapshots /= <<>>

\* C17 witness: of two repositories the first has no snapshot and is
\* left out, the second is returned
C17_Witness ==
    /\ selection_items /= None
    /\ Len(repo_data) = 2
    /\ repo_data[1].snapshots = <<>>
    /\ repo_data[2].snapshots /= <<>>
    /\ Len(Unwrap(selection_items)) = 1
    /\ Unwrap(selection_items)[1].repo_subpath = repo_data[2].info.repo_subpath

(***************************************************************************)
(* Claims about the parser of the object-store listing, checked under      *)
(* SpecListing.                                                            *)
(***************************************************************************)

\* the names of the directory entries among the entries listed, in order
RECURSIVE C18_DirectoryNames(_)
C18_DirectoryNames(entries) ==
    IF entries = <<>> THEN <<>>
    ELSE (IF Head(entries).is_dir THEN << Head(entries).name >> ELSE <<>>)
             \o C18_DirectoryNames(Tail(entries))

\* C18: for a listing output the parser returns exactly one name per
\* directory entry line, the text after the "PRE " marker without the
\* trailing '/', whitespace kept as it is; object lines contribute no
\* name and no name is empty.
C18_OneNamePerDirectoryLine ==
    parsed_dirs /= None =>
        /\ \A entries \in S3EntryLists :
              S3Output(entries) = stdout =>
                  Unwrap(parsed_dirs) = C18_DirectoryNames(entries)
        /\ \A k \in 1..Len(Unwrap(parsed_dirs)) : Unwrap(parsed_dirs)[k] /= <<>>

(***************************************************************************)
(* Claims about select_repositories, checked under SpecSelect.             *)
(***************************************************************************)

\* C19: with an explicit path select_repositories returns exactly the
\* repositories whose native path equals the path, in input order, and
\* the ConfigurationError "No repositories selected" when none does; an
\* Ok result always holds at least one repository.
C19_ExactPathOrError ==
    repository_selection /= None =>
        LET result == Unwrap(repository_selection) IN
        /\ path_opt /= None =>
              LET matching == { i \in 1..Len(backup_data) :
                                   backup_data[i].path = Unwrap(path_opt) }
              IN  /\ matching /= {} =>
                        /\ result.ok
                        /\ result.selected_repos = PickFrom(backup_data, matching)
                  /\ matching = {} =>
                        /\ ~result.ok
                        /\ result.kind = ConfigurationError
                        /\ result.message = "No repositories selected"
        /\ result.ok => Len(result.selected_repos) >= 1

\* C19 witness: the path given matches two of the three repositories
\* offered and these two are returned
C19_Witness ==
    /\ repository_selection /= None
    /\ path_opt /= None
    /\ Unwrap(repository_selection).ok
    /\ Len(Unwrap(repository_selection).selected_repos) = 2
    /\ Len(backup_data) = 3

(***************************************************************************)
(* Claims about the round trip native path -> repository key -> native     *)
(* path, checked under Spec.                                               *)
(***************************************************************************)

\* a native path under /home/<user>/ or under / (the volume directory
\* left aside) whose segments are not empty and hold no underscore
C20_PlainPath(p) ==
    /\ StartsWith(p, SLASH)
    /\ Len(p) >= 2
    /\ ~Contains(p, <<"_">>)
    /\ \A i \in 1..Len(Split(Tail(p), "/")) : Split(Tail(p), "/")[i] /= <<>>
    /\ ~StartsWith(p, DOCKER_VOLUMES_DIR)
    /\ StartsWith(p, HOME_DIR_WITH_SLASH) => Len(Split(Tail(p), "/")) >= 3

\* C20: for a native path under /home/<user>/ or under / without an
\* underscore, decoding the leaf of its repository key with
\* s3_to_native_path and re-attaching the root gives the path again,
\* whatever the number of its segments.
C20_RoundTrip ==
    (round_trip /= None /\ C20_PlainPath(path)) => Unwrap(round_trip) = path

(***************************************************************************)
(* Claims about the time windows of select_timestamp, checked under        *)
(* SpecRestore.                                                            *)
(***************************************************************************)

\* C21: every snapshot timestamp ts lies in the window it is bucketed
\* into: a window start w of select_timestamp has w <= ts < w + 300s and
\* is a multiple of 300 seconds, also for timestamps before the epoch and
\* with a fractional second; the count of a window is the number of
\* timestamps t with w <= t < w + 300s.
C21_WindowContainsTimestamp ==
    (pcR /= "select_timestamp" /\ timestamp_opt = None) =>
        /\ \A t \in C6_AllTimes :
              \E i \in 1..Len(window_times) :
                  /\ window_times[i] <= t
                  /\ t < window_times[i] + Sec(300)
        /\ \A i \in 1..Len(window_times) :
              /\ window_times[i] % Sec(300) = 0
              /\ window_counts[i] =
                    Cardinality({ t \in C6_AllTimes :
                                    /\ window_times[i] <= t
                                    /\ t < window_times[i] + Sec(300) })

(***************************************************************************)
(* Claims about build_s3_path, checked under SpecS3Path.                   *)
(***************************************************************************)

\* C22: for every repository base from which a bucket can be extracted,
\* every hostname and every category, the path built contains no "//" and
\* neither starts nor ends with '/'; bases with an empty base path and
\* bases that end with '/' included.
C22_NoDoubleSlash ==
    (built_path /= None /\ Config_s3_bucket(restic_repo_base) /= None) =>
        LET p == Unwrap(built_path) IN
        /\ ~Contains(p, DOUBLE_SLASH)
        /\ ~StartsWith(p, SLASH)
        /\ p[Len(p)] /= "/"

(***************************************************************************)
(* Claims about the repository URL of a restore session, checked under     *)
(* SpecSession.                                                            *)
(***************************************************************************)

\* C23: in a restore session for the selected host H every engine call
\* for a discovered repository, snapshot listing and restore, uses the
\* URL <repo_base>/H/<repo_subpath>, also when H is not the hostname
\* configured locally.
C23_UrlUsesSelectedHost ==
    \A i \in 1..Len(engine_calls) :
        engine_calls[i].repo_url =
            SESSION_REPO_BASE \o SLASH \o selected_host \o SLASH
                \o engine_calls[i].repo_subpath

(***************************************************************************)
(* Claims about backup followed by discovery, checked under SpecStore.     *)
(***************************************************************************)

\* the repo_subpaths of the RepositoryInfos discovered
C24_Keys ==
    { Unwrap(discovered)[i].repo_subpath : i \in 1..Len(Unwrap(discovered)) }

\* C24: for every native path backed up for the host, scan_repositories
\* returns a RepositoryInfo with the key path_to_repo_subpath(p) and none
\* whose key points into the internal directories of that repository; a
\* whole home directory /home/<user>, with key user_home/<user>, included.
C24_DiscoveryIsComplete ==
    discovered /= None =>
        \A p \in backed_up :
            /\ path_to_repo_subpath(p) \in C24_Keys
            /\ \A d \in RepositoryLayout :
                  (path_to_repo_subpath(p) \o SLASH \o d) \notin C24_Keys

(***************************************************************************)
(* Claims about the RepositoryInfos of scan_repositories, checked under    *)
(* SpecScan.                                                               *)
(***************************************************************************)

\* C25: every RepositoryInfo returned by scan_repositories is consistent
\* with the path functions: its repo_subpath is path_to_repo_subpath of
\* its native_path, its category is the first segment of its repo_subpath
\* and its category is BackupRepo::category() of its native_path.
C25_RepositoryInfoConsistent ==
    (pcS = "done" /\ Unwrap(scan_result).ok) =>
        \A i \in 1..Len(Unwrap(scan_result).repos) :
            LET info == Unwrap(scan_result).repos[i] IN
            /\ info.repo_subpath = path_to_repo_subpath(info.native_path)
            /\ info.category = FirstSegment(info.repo_subpath)
            /\ info.category = BackupRepo_category(info.native_path)

(***************************************************************************)
(* Claims about the window selected and the restore that follows, checked  *)
(* under SpecRestore.                                                      *)
(***************************************************************************)

\* the snapshots of a repository inside the window [ts, ts + 5min)
C26_InWindow(repo, ts) ==
    { k \in 1..Len(repo.snapshots) :
        /\ repo.snapshots[k].time >= ts
        /\ repo.snapshots[k].time < ts + Sec(300) }

\* C26: without an explicit timestamp the timestamp T returned by
\* select_timestamp is one of the window starts computed and the window
\* [T, T + 5min) holds at least one snapshot of the selected
\* repositories; so when the restore has gone through all of them, at
\* least one got a snapshot chosen from inside the window.
C26_SelectedWindowNotEmpty ==
    (timestamp_opt = None /\ selected_timestamp /= None) =>
        LET T == Unwrap(selected_timestamp) IN
        /\ \E i \in 1..Len(window_times) : window_times[i] = T
        /\ \E r \in 1..Len(selected_repos) : C26_InWindow(selected_repos[r], T) /= {}
        /\ Len(restore_log) = Len(selected_repos) =>
              \E i \in 1..Len(restore_log) :
                  /\ restore_log[i].chosen /= None
                  /\ Unwrap(restore_log[i].chosen).time >= T
                  /\ Unwrap(restore_log[i].chosen).time < T + Sec(300)

\* the repositories of the batch, by position, that the loop gave a
\* snapshot to
C27_Restored == { i \in 1..Len(restore_log) : restore_log[i].chosen /= None }

\* C27: whenever restore_repositories returns Ok((restored, skipped)),
\* restored + skipped is the number of repositories selected, every
\* repository counted as restored had a restore command that succeeded and
\* was given the id of the snapshot chosen for it, and every repository
\* counted as skipped had no restore command because none of its snapshots
\* lies in the window or before it.
C27_CountsMatchCommands ==
    (restore_entry = "restore_workflow" /\ pcR = "done" /\ restore_result = "Ok") =>
        LET T == Unwrap(selected_timestamp) IN
        /\ restored_count + skipped_count = Len(selected_repos)
        /\ Len(restore_log) = Len(selected_repos)
        /\ restored_count = Cardinality(C27_Restored)
        /\ \A i \in 1..Len(restore_log) :
              IF i \in C27_Restored
              THEN /\ restore_log[i].outcome = "Ok"
                   /\ \E k \in 1..Len(selected_repos[i].snapshots) :
                         /\ selected_repos[i].snapshots[k].id
                               = Unwrap(restore_log[i].chosen).id
                         /\ selected_repos[i].snapshots[k].time < T + FiveMinutes
              ELSE /\ restore_log[i].outcome = "none"
                   /\ \A k \in 1..Len(selected_repos[i].snapshots) :
                         selected_repos[i].snapshots[k].time >= T + FiveMinutes

\* C27 witness: a batch of two repositories returned Ok((1, 1)): one was
\* restored, the other had only snapshots after the window and was skipped
C27_Witness ==
    /\ restore_entry = "restore_workflow"
    /\ pcR = "done"
    /\ restore_result = "Ok"
    /\ Len(selected_repos) = 2
    /\ restored_count = 1
    /\ skipped_count = 1

(***************************************************************************)
(* Claims about the count of get_snapshots and the repositories            *)
(* list_backups reports, checked under SpecSnapshots.                      *)
(***************************************************************************)

\* C28: the count returned by get_snapshots is the number of records of
\* the engine, the list returned is never longer than the count and as
\* long as the count exactly when no record was dropped; a repository
\* reported with snapshot_count > 0 has at least one SnapshotInfo.
C28_CountAndList ==
    (snapshot_result /= None /\ Unwrap(snapshot_result).ok) =>
        LET result  == Unwrap(snapshot_result)
            records == C16_Records(Unwrap(engine_records))
        IN  /\ result.count = Len(records)
            /\ Len(result.snapshot_infos) <= result.count
            /\ Len(result.snapshot_infos) = result.count
                  <=> \A k \in 1..Len(records) : C16_Usable(records[k])
            /\ list_report /= None =>
                  \A i \in 1..Len(Unwrap(list_report).repos) :
                      Unwrap(list_report).repos[i].snapshot_count > 0
                          => Len(Unwrap(list_report).all_snapshots) >= 1

(***************************************************************************)
(* Claims about a backup run, checked under SpecBackup for both backup     *)
(* loops.                                                                  *)
(***************************************************************************)

\* the paths, by position, whose initialisation or backup command failed
\* with one of the kinds: the last command given for the path failed
FailedBackups(kinds) ==
    { i \in 1..Len(backup_log) :
        /\ backup_log[i].commands /= <<>>
        /\ LET last == backup_log[i].commands[Len(backup_log[i].commands)]
           IN  ~last.outcome.ok /\ last.outcome.kind \in kinds }

\* C29: a failure of the initialisation or of the backup command on one
\* path that is neither AuthenticationFailed nor NetworkError counts the
\* path as skipped and the remaining paths are still backed up; at the end
\* success_count + skip_count is the number of paths processed; an
\* AuthenticationFailed or NetworkError on a path ends the run with an
\* error before any later path.
C29_NonFatalBackupIsSkipped ==
    /\ \A i \in FailedBackups(ErrorKinds \ FatalKinds) :
          /\ skip_count >= 1
          /\ pcB = "done" =>
                \/ backup_result = Some("Ok") /\ Len(backup_log) = Len(all_paths)
                \/ Len(backup_log) \in FailedBackups(FatalKinds)
    /\ (pcB = "done" /\ backup_result = Some("Ok")) =>
          success_count + skip_count = Len(all_paths)
    /\ \A i \in FailedBackups(FatalKinds) :
          /\ i = Len(backup_log)
          /\ pcB = "done"
          /\ backup_result = Some(backup_log[i].commands[Len(backup_log[i].commands)].outcome.kind)

\* the positions in the commands of a path of the commands of one name
C30_Positions(commands, name) ==
    { k \in 1..Len(commands) : commands[k].name = name }

\* C30: for each path backed up the existence check is the first command,
\* an init comes after it and before the backup command; init is issued
\* if and only if the existence check failed with RepositoryNotFound;
\* when the check fails with another kind neither init nor backup is
\* issued for the path and execute_single_backup returns that error.
C30_CheckInitBackupOrder ==
    \A i \in 1..Len(backup_log) :
        LET commands == backup_log[i].commands
            check == commands[1].outcome
        IN  commands /= <<>> =>
            /\ C30_Positions(commands, CMD_snapshots) = {1}
            /\ C30_Positions(commands, CMD_init) \subseteq {2}
            /\ C30_Positions(commands, CMD_backup) \subseteq {Len(commands)}
            /\ C30_Positions(commands, CMD_init) /= {}
                  <=> (~check.ok /\ check.kind = RepositoryNotFound)
            /\ (~check.ok /\ check.kind /= RepositoryNotFound) =>
                  /\ Len(commands) = 1
                  /\ backup_entry = "backup_workflow" =>
                        ~backup_log[i].ok /\ backup_log[i].kind = check.kind

\* C30 witness: execute_single_backup found no repository, initialised it
\* and ran the backup; the next path's check failed with another kind
C30_Witness ==
    /\ backup_entry = "backup_workflow"
    /\ Len(backup_log) = 2
    /\ Len(backup_log[1].commands) = 3
    /\ backup_log[1].commands[1].outcome.kind = RepositoryNotFound
    /\ backup_log[1].commands[2].name = CMD_init
    /\ backup_log[1].commands[3].name = CMD_backup
    /\ Len(backup_log[2].commands) = 1
    /\ backup_log[2].commands[1].outcome.kind = CommandFailed

====
